---- MODULE Spec2Model ----
(***************************************************************************)
(* Session store, session identity and transition engine of the            *)
(* vibe-feature-mcp server.                                                 *)
(*                                                                         *)
(* A JavaScript string is a sequence of one-character strings, so that     *)
(* split, replace, charCodeAt and substring are computed as the code       *)
(* computes them.  A 32-bit integer is a pair of 16-bit limbs [hi, lo].    *)
(***************************************************************************)
EXTENDS Integers, Sequences, FiniteSets, TLC

VARIABLES
  nodeEnv,     \* process.env.NODE_ENV
  head,        \* the project's .git: whether it exists, and the branch of HEAD
  clock,       \* the time new Date() reads
  db,          \* conversation_states: conversationId -> ConversationState
  logs,        \* conversation ids that have interaction_logs not soft-deleted
  planFiles,   \* the plan documents that exist on disk
  files,       \* the project's custom workflow candidates: what each holds
  workflowsDir,    \* the shipped resources/workflows: what each file holds
  workflowManager, \* the WorkflowManager of the server context
  calls,       \* the asynchronous calls in flight, one per caller
  result,      \* what the call that finished last gave its caller
  keyCalls,    \* the last calls of generateConversationId and their results
  response,    \* the last response of the transition handlers
  processEnv,  \* process.env: VIBE_PROJECT_PATH and PROJECT_PATH
  server       \* the server context and its ConversationManager

vars ==
  <<nodeEnv, head, clock, db, logs, planFiles, files, workflowsDir,
    workflowManager, calls, result, keyCalls, response, processEnv, server>>

----------------------------------------------------------------------------
(* Strings *)

\* String.prototype.charCodeAt for the characters the model uses.
charCodeAt ==
  [c \in {"-", ".", "/", ":", "A", "B", "a", "d", "e", "f", "i", "l", "m",
          "n", "p", "q", "r", "s", "t", "u", "x"} |->
     CASE c = "-" -> 45 [] c = "." -> 46 [] c = "/" -> 47 [] c = ":" -> 58
       [] c = "A" -> 65 [] c = "B" -> 66 [] c = "a" -> 97 [] c = "d" -> 100
       [] c = "e" -> 101
       [] c = "f" -> 102 [] c = "i" -> 105 [] c = "l" -> 108 [] c = "m" -> 109
       [] c = "n" -> 110 [] c = "p" -> 112 [] c = "q" -> 113 [] c = "r" -> 114
       [] c = "s" -> 115 [] c = "t" -> 116 [] c = "u" -> 117 [] c = "x" -> 120]

\* The character class [a-zA-Z0-9-] of the branch-cleaning expression.
IsBranchChar(c) ==
  \/ c = "-"
  \/ (charCodeAt[c] >= 97 /\ charCodeAt[c] <= 122)
  \/ (charCodeAt[c] >= 65 /\ charCodeAt[c] <= 90)
  \/ (charCodeAt[c] >= 48 /\ charCodeAt[c] <= 57)

\* projectPath.split('/').pop(): the text after the last '/'.
RECURSIVE LastSegment(_)
LastSegment(s) ==
  IF s = << >> THEN << >>
  ELSE IF s[Len(s)] = "/" THEN << >>
  ELSE LastSegment(SubSeq(s, 1, Len(s) - 1)) \o <<s[Len(s)]>>

\* 'unknown-project'
UnknownProject ==
  <<"u","n","k","n","o","w","n","-","p","r","o","j","e","c","t">>

\* projectPath.split('/').pop() || 'unknown-project'
ProjectName(projectPath) ==
  IF LastSegment(projectPath) = << >> THEN UnknownProject
  ELSE LastSegment(projectPath)

\* .replace(/[^a-zA-Z0-9-]/g, '-')
ReplaceNonBranchChars(s) ==
  [i \in 1..Len(s) |-> IF IsBranchChar(s[i]) THEN s[i] ELSE "-"]

\* .replace(/-+/g, '-')
RECURSIVE CollapseDashes(_)
CollapseDashes(s) ==
  IF Len(s) <= 1 THEN s
  ELSE IF s[1] = "-" /\ s[2] = "-" THEN CollapseDashes(Tail(s))
  ELSE <<s[1]>> \o CollapseDashes(Tail(s))

\* .replace(/^-|-$/g, ''): one leading and one trailing dash are removed.
TrimDashes(s) ==
  LET a == IF s # << >> /\ s[1] = "-" THEN Tail(s) ELSE s
  IN  IF a # << >> /\ a[Len(a)] = "-" THEN SubSeq(a, 1, Len(a) - 1) ELSE a

CleanBranch(gitBranch) ==
  TrimDashes(CollapseDashes(ReplaceNonBranchChars(gitBranch)))

----------------------------------------------------------------------------
(* 32-bit arithmetic of the rolling hash *)

Limb == 65536

\* hash << 5 on int32
Shl5(h) ==
  LET lo == h.lo * 32
      hi == h.hi * 32 + (lo \div Limb)
  IN  [hi |-> hi % Limb, lo |-> lo % Limb]

\* a - b, wrapped to 32 bits
Sub32(a, b) ==
  LET lo == a.lo - b.lo
      borrow == IF lo < 0 THEN 1 ELSE 0
      hi == a.hi - b.hi - borrow
  IN  [hi |-> (hi + 2 * Limb) % Limb, lo |-> (lo + Limb) % Limb]

\* a + char, wrapped to 32 bits
AddChar32(a, char) ==
  LET lo == a.lo + char
      hi == a.hi + (lo \div Limb)
  IN  [hi |-> hi % Limb, lo |-> lo % Limb]

\* hash = ((hash << 5) - hash) + char; hash = hash & hash
HashStep(hash, char) == AddChar32(Sub32(Shl5(hash), hash), char)

\* The two limbs of a value wrapped to 32 bits
IsWord32(h) == h.hi \in 0..(Limb - 1) /\ h.lo \in 0..(Limb - 1)

\* for (let i = 0; i < str.length; i++) { ... }, from character i on
RECURSIVE HashLoop(_, _, _)
HashLoop(hash, str, i) ==
  IF i > Len(str) THEN hash
  ELSE LET next == HashStep(hash, charCodeAt[str[i]])
       IN  IF IsWord32(next) THEN HashLoop(next, str, i + 1) ELSE next

IsNegative32(h) == h.hi >= 32768

\* Math.abs(hash): a magnitude in 0 .. 2^31, still as two limbs.
Abs32(h) ==
  IF IsNegative32(h)
  THEN LET lo == (Limb - h.lo) % Limb
           hi == (Limb - 1 - h.hi + (IF h.lo = 0 THEN 1 ELSE 0)) % Limb
       IN  [hi |-> hi, lo |-> lo]
  ELSE h

Digits36 ==
  <<"0","1","2","3","4","5","6","7","8","9","a","b","c","d","e","f","g","h",
    "i","j","k","l","m","n","o","p","q","r","s","t","u","v","w","x","y","z">>

\* The decimal digits of a magnitude, as Number.prototype.toString() gives
RECURSIVE ToBase36_Decimal(_)
ToBase36_Decimal(n) ==
  LET r1  == n.hi % 10
      mid == r1 * Limb + n.lo
      q   == [hi |-> n.hi \div 10, lo |-> mid \div 10]
      d   == Digits36[(mid % 10) + 1]
  IN  IF q.hi = 0 /\ q.lo = 0 THEN <<d>> ELSE ToBase36_Decimal(q) \o <<d>>

\* Number.prototype.toString(36) of a magnitude
RECURSIVE ToBase36(_)
ToBase36(n) ==
  LET r1  == n.hi % 36
      mid == r1 * Limb + n.lo
      q   == [hi |-> n.hi \div 36, lo |-> mid \div 36]
      d   == Digits36[(mid % 36) + 1]
  IN  IF q.hi = 0 /\ q.lo = 0 THEN <<d>> ELSE ToBase36(q) \o <<d>>

\* .substring(0, n)
Substring0(s, n) == SubSeq(s, 1, IF Len(s) < n THEN Len(s) ELSE n)

HashLen == 6

\* '-p423k1', the fixed suffix of test mode
TestSuffix == <<"p","4","2","3","k","1">>

Hash32(projectPath, gitBranch) ==
  HashLoop([hi |-> 0, lo |-> 0], projectPath \o <<":">> \o gitBranch, 1)

HashStr(projectPath, gitBranch) ==
  Substring0(ToBase36(Abs32(Hash32(projectPath, gitBranch))), HashLen)

\* A key drawn from a per-process call counter instead of the hash.
generateConversationId_Counter(projectPath, gitBranch, env) ==
  ProjectName(projectPath) \o <<"-">> \o CleanBranch(gitBranch) \o <<"-">>
    \o ToBase36([hi |-> 0, lo |-> Len(keyCalls)])

\* A key without the hash suffix in every mode.
generateConversationId_NoHash(projectPath, gitBranch, env) ==
  ProjectName(projectPath) \o <<"-">> \o CleanBranch(gitBranch) \o <<"-">>
    \o TestSuffix

\* generateConversationId with the value of process.env.NODE_ENV it reads
generateConversationId(projectPath, gitBranch, env) ==
  LET projectName == ProjectName(projectPath)
      cleanBranch == CleanBranch(gitBranch)
  IN  IF env = "test"
      THEN projectName \o <<"-">> \o cleanBranch \o <<"-">> \o TestSuffix
      ELSE projectName \o <<"-">> \o cleanBranch \o <<"-">>
             \o HashStr(projectPath, gitBranch)

----------------------------------------------------------------------------
(* The session key as a function: inputs drawn from bounded sets *)

MaxBranchLen == 2

BranchAlphabet == {"f", "/", "-"}

RECURSIVE StringsUpTo(_, _)
StringsUpTo(alphabet, n) ==
  IF n = 0 THEN {<< >>}
  ELSE LET shorter == StringsUpTo(alphabet, n - 1)
       IN  shorter \cup {s \o <<c>> : s \in shorter, c \in alphabet}

\* A branch name long enough for the hash of the pair to come out negative
LongBranch == <<"f", "/", "f">>

KeyBranches ==
  (StringsUpTo(BranchAlphabet, MaxBranchLen) \ {<< >>}) \cup {LongBranch}

\* /Aa/p and /BB/p share the base name (and "Aa", "BB" share the hash);
\* /Aa/q has another base name.
KeyPaths ==
  { <<"/","A","a","/","p">>, <<"/","B","B","/","p">>, <<"/","A","a","/","q">> }

NodeEnvs == {"test", "production"}

EmptyMap == [c \in {} |-> 0]

NoResponse == [kind |-> "none"]

\* An optional string: an environment variable or an optional argument that
\* is not there (undefined), or the characters it holds
Undefined == [set |-> FALSE, value |-> << >>]
Given(value) == [set |-> TRUE, value |-> value]

\* process.env without the two project path variables
NoEnv == [VIBE_PROJECT_PATH |-> Undefined, PROJECT_PATH |-> Undefined]

\* No server has been initialized and no ConversationManager constructed
NoServer == [initialized |-> FALSE, projectPath |-> << >>,
             conversationManager |-> << >>]

InitKey ==
  /\ nodeEnv \in NodeEnvs
  /\ head = [git |-> FALSE]
  /\ clock = 0
  /\ db = EmptyMap
  /\ logs = {}
  /\ planFiles = {}
  /\ files = EmptyMap
  /\ workflowsDir = EmptyMap
  /\ workflowManager = EmptyMap
  /\ calls = EmptyMap
  /\ result = [op |-> "none"]
  /\ keyCalls = << >>
  /\ response = NoResponse
  /\ processEnv = NoEnv
  /\ server = NoServer

\* One call of generateConversationId; the last two calls are kept.
GenerateId(projectPath, gitBranch) ==
  /\ Len(keyCalls) < 2
  /\ keyCalls' = Append(keyCalls,
        [projectPath |-> projectPath, gitBranch |-> gitBranch,
         nodeEnv |-> nodeEnv,
         key |-> generateConversationId(projectPath, gitBranch, nodeEnv)])
  /\ UNCHANGED <<nodeEnv, head, clock, db, logs, planFiles, files,
                 workflowsDir, workflowManager, calls, result, response, processEnv,
                 server>>

\* The process is restarted (or process.env is assigned) with another NODE_ENV.
SetNodeEnv(e) ==
  /\ e # nodeEnv
  /\ nodeEnv' = e
  /\ UNCHANGED <<head, clock, db, logs, planFiles, files, workflowsDir,
                 workflowManager, calls, result, keyCalls, response, processEnv,
                 server>>

NextKey ==
  \/ \E p \in KeyPaths, b \in KeyBranches : GenerateId(p, b)
  \/ \E e \in NodeEnvs : SetNodeEnv(e)

SpecKey == InitKey /\ [][NextKey]_vars

SameInputs(a, b) ==
  a.projectPath = b.projectPath /\ a.gitBranch = b.gitBranch

SameMode(a, b) == (a.nodeEnv = "test") <=> (b.nodeEnv = "test")

Times31Plus(h, char) ==
  LET lo == h.lo * 31 + char
      hi == h.hi * 31 + (lo \div Limb)
  IN  [hi |-> hi % Limb, lo |-> lo % Limb]

\* The values hash takes in the loop from character i on, one per iteration
RECURSIVE HashTrace(_, _, _)
HashTrace(hash, str, i) ==
  IF i > Len(str) THEN << >>
  ELSE LET next == HashStep(hash, charCodeAt[str[i]])
       IN  <<next>> \o HashTrace(next, str, i + 1)

\* let hash = 0, and the values that follow it
HashValues(projectPath, gitBranch) ==
  <<[hi |-> 0, lo |-> 0]>>
    \o HashTrace([hi |-> 0, lo |-> 0], projectPath \o <<":">> \o gitBranch, 1)

\* 2^31, the greatest magnitude of a signed 32-bit integer
MaxMagnitude == [hi |-> 32768, lo |-> 0]

\* C38: outside test mode the suffix of the key is the rolling hash
\* h := (h * 31 + charCode), wrapped to a signed 32-bit integer, over
\* projectPath ':' branch, rendered as |h| in base 36 and cut to 6
\* characters: h is a 32-bit integer after every step, the suffix has 1 to 6
\* characters, the cut drops no digit (2^31, the greatest |h|, has 6 digits
\* in base 36), and two calls get the same suffix only when their hashes
\* are equal in absolute value.
C38_HashSuffixKeepsEveryDigit ==
  /\ Len(ToBase36(MaxMagnitude)) = HashLen
  /\ \A i \in DOMAIN keyCalls :
       LET a == keyCalls[i]
           str == a.projectPath \o <<":">> \o a.gitBranch
           hash == Hash32(a.projectPath, a.gitBranch)
           suffix == HashStr(a.projectPath, a.gitBranch)
           values == HashValues(a.projectPath, a.gitBranch)
       IN  a.nodeEnv # "test" =>
             /\ \A n \in 1..Len(str) :
                  /\ IsWord32(values[n + 1])
                  /\ values[n + 1] =
                       Times31Plus(values[n], charCodeAt[str[n]])
             /\ hash = values[Len(str) + 1]
             /\ Abs32(hash).hi <= 32768
             /\ Abs32(hash).hi = 32768 => Abs32(hash).lo = 0
             /\ Len(suffix) \in 1..HashLen
             /\ suffix = ToBase36(Abs32(hash))
             /\ a.key = ProjectName(a.projectPath) \o <<"-">>
                          \o CleanBranch(a.gitBranch) \o <<"-">> \o suffix
             /\ \A j \in DOMAIN keyCalls :
                  (/\ keyCalls[j].nodeEnv # "test"
                   /\ HashStr(keyCalls[j].projectPath, keyCalls[j].gitBranch)
                        = suffix)
                    => Abs32(Hash32(keyCalls[j].projectPath,
                                    keyCalls[j].gitBranch)) = Abs32(hash)

\* Two calls outside test mode with different inputs and the same suffix of
\* six characters, from a hash that exceeded 32 bits at one step and ended
\* negative
C38_Witness ==
  /\ Len(keyCalls) = 2
  /\ keyCalls[1].nodeEnv # "test" /\ keyCalls[2].nodeEnv # "test"
  /\ ~SameInputs(keyCalls[1], keyCalls[2])
  /\ HashStr(keyCalls[1].projectPath, keyCalls[1].gitBranch)
       = HashStr(keyCalls[2].projectPath, keyCalls[2].gitBranch)
  /\ Len(HashStr(keyCalls[1].projectPath, keyCalls[1].gitBranch)) = HashLen
  /\ \E n \in DOMAIN HashValues(keyCalls[1].projectPath,
                                  keyCalls[1].gitBranch) :
       HashValues(keyCalls[1].projectPath, keyCalls[1].gitBranch)[n].hi * 31
         >= Limb
  /\ IsNegative32(Hash32(keyCalls[1].projectPath, keyCalls[1].gitBranch))

----------------------------------------------------------------------------
(* Workflow definitions *)

\* A flat transition that leads back to the initial phase whatever it names
Flat_ToIdle(trigger, to, instructions, reason) ==
  [trigger |-> trigger, to |-> "idle", instructions |-> instructions,
   transition_reason |-> reason]

\* A transition in the flat shape: trigger, to, instructions, transition_reason
Flat(trigger, to, instructions, reason) ==
  [trigger |-> trigger, to |-> to, instructions |-> instructions,
   transition_reason |-> reason]

\* A nested transition that answers to one trigger name whatever it names
Nested_OneTrigger(trigger, target, instructions, reason) ==
  [trigger |-> "abandon_feature", target |-> target, is_modeled |-> TRUE,
   side_effects |-> [instructions |-> instructions,
                     transition_reason |-> reason]]

\* A transition in the nested shape: trigger, target, is_modeled, side_effects
Nested(trigger, target, instructions, reason) ==
  [trigger |-> trigger, target |-> target, is_modeled |-> TRUE,
   side_effects |-> [instructions |-> instructions,
                     transition_reason |-> reason]]

Direct(state, instructions, reason) ==
  [state |-> state, instructions |-> instructions,
   transition_reason |-> reason]

\* resources/workflows/waterfall.yaml; each text is cut to its first sentence.
Waterfall ==
  [name |-> "Classical waterfall",
   description |-> "From Specification down to test - the historical way",
   initial_state |-> "idle",
   states |->
     [idle |->
        [description |-> "Waiting for feature requests",
         transitions |-> <<
           Flat("new_feature_request", "requirements",
                "New feature request detected!",
                "New feature request detected, starting requirements analysis")>>],
      requirements |->
        [description |-> "Gathering and analyzing requirements",
         transitions |-> <<
           Nested("refine_requirements", "requirements",
                  "Continue refining requirements.",
                  "Requirements need further refinement and clarification"),
           Nested("requirements_complete", "design",
                  "Requirements are complete!",
                  "All requirements tasks completed, moving to technical design"),
           Nested("abandon_feature", "idle",
                  "Feature development abandoned.",
                  "User decided to abandon this feature development")>>],
      design |->
        [description |-> "Designing technical solution",
         transitions |-> <<
           Nested("refine_design", "design",
                  "Continue refining the technical design.",
                  "Design needs further refinement and detail"),
           Nested("requirements_unclear", "requirements",
                  "Design phase revealed unclear requirements.",
                  "Design work revealed gaps or ambiguities in requirements"),
           Nested("design_complete", "implementation",
                  "Design is complete!",
                  "Technical design is complete, ready to start building"),
           Nested("abandon_feature", "idle",
                  "Feature development abandoned during design phase.",
                  "User decided to abandon feature during design phase")>>],
      implementation |->
        [description |-> "Building the solution",
         transitions |-> <<
           Nested("refine_implementation", "implementation",
                  "Continue implementation work.",
                  "Implementation work continues, adding features or improving code"),
           Nested("design_issues", "design",
                  "Implementation revealed issues with the design.",
                  "Implementation work revealed problems with the current design"),
           Nested("implementation_complete", "qa",
                  "Implementation is complete!",
                  "Core implementation is complete, ready for quality review"),
           Nested("abandon_feature", "idle",
                  "Feature development abandoned during implementation.",
                  "User decided to abandon feature during implementation")>>],
      qa |->
        [description |-> "Quality assurance and review",
         transitions |-> <<
           Nested("refine_qa", "qa",
                  "Continue quality assurance work.",
                  "Quality assurance work continues, improving code quality"),
           Nested("implementation_issues", "implementation",
                  "Quality assurance revealed implementation issues.",
                  "QA review found issues that require implementation changes"),
           Nested("qa_complete", "testing",
                  "Quality assurance is complete!",
                  "Quality assurance is complete, ready for comprehensive testing"),
           Nested("abandon_feature", "idle",
                  "Feature development abandoned during QA phase.",
                  "User decided to abandon feature during quality assurance")>>],
      testing |->
        [description |-> "Testing and validation",
         transitions |-> <<
           Nested("refine_testing", "testing",
                  "Continue testing work.",
                  "Testing work continues, improving coverage and validation"),
           Nested("qa_issues", "qa",
                  "Testing revealed quality issues.",
                  "Testing found issues that require quality assurance attention"),
           Nested("testing_complete", "complete",
                  "Testing is complete!",
                  "All testing is complete, feature is ready for delivery"),
           Nested("abandon_feature", "idle",
                  "Feature development abandoned during testing phase.",
                  "User decided to abandon feature during testing phase")>>],
      complete |->
        [description |-> "Feature complete and ready for delivery",
         transitions |-> <<
           Nested("feature_delivered", "idle",
                  "Feature has been delivered successfully!",
                  "Feature delivery complete, returning to idle state"),
           Nested("new_feature_request", "requirements",
                  "New feature request while previous feature is complete.",
                  "New feature request received, starting new development cycle")>>]],
   direct_transitions |-> <<
     Direct("idle", "Returned to idle state.",
            "Direct transition to idle state"),
     Direct("requirements", "Starting requirements analysis.",
            "Direct transition to requirements phase"),
     Direct("design", "Starting design phase.",
            "Direct transition to design phase"),
     Direct("implementation", "Starting implementation phase.",
            "Direct transition to implementation phase"),
     Direct("qa", "Starting quality assurance phase.",
            "Direct transition to quality assurance phase"),
     Direct("testing", "Starting testing phase.",
            "Direct transition to testing phase"),
     Direct("complete", "Feature development is complete!",
            "Direct transition to complete phase")>>]

\* A project's own workflow, as a valid .vibe file holds it: two phases, and
\* a direct_transitions entry for the first one only.
CustomGraph ==
  [name |-> "Project workflow",
   description |-> "A project-supplied workflow",
   initial_state |-> "plan",
   states |->
     [plan |->
        [description |-> "Planning",
         transitions |-> <<
           Flat("plan_complete", "build", "Plan is complete!",
                "Planning finished")>>],
      build |->
        [description |-> "Building",
         transitions |-> <<
           Flat("rework", "plan", "Back to planning.", "Rework needed")>>]],
   direct_transitions |-> <<
     Direct("plan", "Starting planning.", "Direct transition to plan phase")>>]

\* The shipped waterfall definition after an edit of the file on disk: still
\* a valid definition, starting in requirements.
WaterfallEdited == [Waterfall EXCEPT !.initial_state = "requirements"]

\* The project's own workflow after an edit of its file: starting in build.
CustomEdited == [CustomGraph EXCEPT !.initial_state = "build"]

\* The definition texts that parse and validate, by a name for each text,
\* with the graph the loader makes of each
Definitions ==
  [shipped |-> Waterfall, shippedEdited |-> WaterfallEdited,
   project |-> CustomGraph, projectEdited |-> CustomEdited]

\* The text that defines a graph, and the graph a text defines
TextOf(graph) == CHOOSE t \in DOMAIN Definitions : Definitions[t] = graph
Parse(text) == Definitions[text]

\* What a file holds: nothing (it does not exist), the text of a definition
\* that parses and validates, or text that does not.
Absent == [kind |-> "absent"]
ValidFile(graph) == [kind |-> "valid", text |-> TextOf(graph)]
Malformed == [kind |-> "malformed"]

\* this.projectPath of the one ConversationManager of the process
ProjectPath == <<"/","A","a","/","p">>

\* A file of the workflows directory as readdirSync names it: its
\* path.basename(file, path.extname(file)) and its path.extname(file)
WorkflowFile(base, ext) == [base |-> base, ext |-> ext]

WorkflowFiles ==
  {WorkflowFile("minimal", ".yml"), WorkflowFile("waterfall", ".yaml")}

\* The workflows directory as shipped: waterfall.yaml only
Shipped ==
  [f \in WorkflowFiles |->
     IF f.base = "waterfall" THEN ValidFile(Waterfall) ELSE Absent]

\* StateMachineLoader.loadFromFile: the graph a valid file holds, or an error.
loadFromFile(fs, path) ==
  IF fs[path].kind = "valid"
  THEN [ok |-> TRUE, graph |-> Parse(fs[path].text), path |-> path]
  ELSE [ok |-> FALSE, error |-> "DefinitionInvalid", path |-> path]

\* The WorkflowInfo registered with a loaded workflow
WorkflowInfo(workflowName, workflow) ==
  [name |-> workflowName,
   displayName |-> workflow.name,
   description |-> workflow.description,
   initialState |-> workflow.initial_state,
   phases |-> DOMAIN workflow.states]

\* The YAML files of the directory, those readdirSync lists and the filter
\* keeps
YamlFiles(dir) ==
  {f \in DOMAIN dir : dir[f].kind # "absent" /\ f.ext \in {".yaml", ".yml"}}

\* The two maps of a WorkflowManager that registered the files in loaded;
\* predefinedWorkflows holds each loaded graph by reference, the reference
\* being the text the graph was loaded from
Registered(dir, loaded) ==
  LET names == {f.base : f \in loaded}
      FileOf(n) == CHOOSE f \in loaded : f.base = n
  IN  [ok |-> TRUE,
       predefinedWorkflows |->
         [n \in names |-> TextOf(loadFromFile(dir, FileOf(n)).graph)],
       workflowInfos |->
         [n \in names |->
            WorkflowInfo(n, loadFromFile(dir, FileOf(n)).graph)]]

\* A loading loop without the try around each file: the first file that
\* fails ends the loop, and only the files listed before it (minimal.yml is
\* listed before waterfall.yaml) are registered
loadPredefinedWorkflows_NoInnerCatch(dir) ==
  LET failing == {f \in YamlFiles(dir) : ~loadFromFile(dir, f).ok}
      Before(f, g) == f.base = "minimal" /\ g.base = "waterfall"
  IN  Registered(dir,
        {f \in YamlFiles(dir) : \A g \in failing : Before(f, g)})

\* loadPredefinedWorkflows: each YAML file of the directory that loads is
\* registered under its base name in both maps; a file that fails to load
\* is logged and skipped; a directory without YAML files registers nothing.
loadPredefinedWorkflows(dir) ==
  Registered(dir, {f \in YamlFiles(dir) : loadFromFile(dir, f).ok})

\* new WorkflowManager(): the constructor loads the predefined workflows
WorkflowManager(dir) == loadPredefinedWorkflows(dir)

getAvailableWorkflows(manager) ==
  {manager.workflowInfos[n] : n \in DOMAIN manager.workflowInfos}

getWorkflow(manager, name) == Parse(manager.predefinedWorkflows[name])

isPredefinedWorkflow(manager, name) ==
  name \in DOMAIN manager.predefinedWorkflows

\* A manager that names no workflow
getWorkflowNames_Empty(manager) == {}

getWorkflowNames(manager) == DOMAIN manager.predefinedWorkflows

\* path.join(projectPath, '.vibe', name): the directory and the path below it
Join(dir, rel) == [dir |-> dir, rel |-> rel]

\* A path.relative that leaves the path as it is
Relative_Absolute(from, path) == path

\* path.relative(from, path): the part below from, which is a path from no
\* directory, or the way up from from and over
Relative(from, path) ==
  IF path.dir = from
  THEN Join(<< >>, path.rel)
  ELSE Join(<<".", ".">> \o path.dir, path.rel)

\* The names of the candidate files of a custom workflow
CandidateNames ==
  <<".vibe/state-machine.yaml", ".vibe/state-machine.yml",
    ".vibe/workflow.yaml", ".vibe/workflow.yml">>

\* The candidate files of a custom workflow, in the order they are tried.
customFilePaths(projectPath) ==
  [i \in DOMAIN CandidateNames |-> Join(projectPath, CandidateNames[i])]

\* fs.existsSync of a candidate
ExistsSync(fs, path) == path \in DOMAIN fs /\ fs[path].kind # "absent"

\* The last candidate that exists, 0 if none does.
FirstExisting_Last(fs, paths) ==
  IF \E i \in DOMAIN paths : ExistsSync(fs, paths[i])
  THEN CHOOSE i \in DOMAIN paths :
         /\ ExistsSync(fs, paths[i])
         /\ \A j \in (i + 1)..Len(paths) : ~ExistsSync(fs, paths[j])
  ELSE 0

\* The first candidate that exists, 0 if none does.
FirstExisting(fs, paths) ==
  IF \E i \in DOMAIN paths : ExistsSync(fs, paths[i])
  THEN CHOOSE i \in DOMAIN paths :
         /\ ExistsSync(fs, paths[i])
         /\ \A j \in 1..(i - 1) : ~ExistsSync(fs, paths[j])
  ELSE 0

\* A resolution that keeps the graph of the custom resolution before it
loadWorkflowForProject_Cached(manager, fs, projectPath, workflowName) ==
  LET name == IF workflowName = "" THEN "waterfall" ELSE workflowName
      paths == customFilePaths(projectPath)
      first == FirstExisting(fs, paths)
      cached == /\ response.kind = "resolve"
                /\ response.name = "custom"
                /\ response.outcome.ok
  IN  IF name = "custom"
      THEN IF cached
           THEN response.outcome
           ELSE IF first # 0
           THEN loadFromFile(fs, paths[first])
           ELSE [ok |-> FALSE, error |-> "CustomWorkflowMissing",
                 searched |-> [i \in DOMAIN paths |->
                                 Relative(projectPath, paths[i])]]
      ELSE IF isPredefinedWorkflow(manager, name)
           THEN [ok |-> TRUE, graph |-> getWorkflow(manager, name)]
           ELSE [ok |-> FALSE, error |-> "UnknownWorkflow", name |-> name,
                 available |-> getWorkflowNames(manager) \cup {"custom"}]

\* WorkflowManager.loadWorkflowForProject on the project's files fs; a
\* workflowName that is missing or empty is "".
loadWorkflowForProject(manager, fs, projectPath, workflowName) ==
  LET name == IF workflowName = "" THEN "waterfall" ELSE workflowName
      paths == customFilePaths(projectPath)
      first == FirstExisting(fs, paths)
  IN  IF name = "custom"
      THEN IF first # 0
           THEN loadFromFile(fs, paths[first])
           ELSE [ok |-> FALSE, error |-> "CustomWorkflowMissing",
                 searched |-> [i \in DOMAIN paths |->
                                 Relative(projectPath, paths[i])]]
      ELSE IF isPredefinedWorkflow(manager, name)
           THEN [ok |-> TRUE, graph |-> getWorkflow(manager, name)]
           ELSE [ok |-> FALSE, error |-> "UnknownWorkflow", name |-> name,
                 available |-> getWorkflowNames(manager) \cup {"custom"}]

NoCustomFiles ==
  [p \in {customFilePaths(ProjectPath)[i] : i \in DOMAIN CandidateNames} |->
     Absent]

----------------------------------------------------------------------------
(* ConversationManager over the database *)

MaxCalls == 2

MaxTime == 1

Callers == 1..MaxCalls

Main == <<"m","a","i","n">>
Master == <<"m","a","s","t","e","r">>
Default == <<"d","e","f","a","u","l","t">>

\* The project directory without .git, or with HEAD on a branch
NoGit == [git |-> FALSE]
OnBranch(b) == [git |-> TRUE, branch |-> b]

Heads == {NoGit, OnBranch(Main)}

\* A detection that answers the branch of HEAD although the git command failed
getGitBranch_Unguarded(h, gitFails) ==
  IF ~h.git THEN Default ELSE h.branch

\* getGitBranch: 'default' without .git or when the git command fails
getGitBranch(h, gitFails) ==
  IF ~h.git THEN Default
  ELSE IF gitFails THEN Default
  ELSE h.branch

\* resolve(projectPath, '.vibe', planFileName)
PlanFilePath(projectPath, gitBranch) ==
  LET developmentPlan ==
        <<"d","e","v","e","l","o","p","m","e","n","t","-","p","l","a","n">>
      planFileName ==
        IF gitBranch = Main \/ gitBranch = Master
        THEN developmentPlan \o <<".","m","d">>
        ELSE developmentPlan \o <<"-">> \o gitBranch \o <<".","m","d">>
  IN  projectPath \o <<"/",".","v","i","b","e","/">> \o planFileName

\* The ConversationContext returned for a stored state
Context(state) ==
  [conversationId |-> state.conversationId,
   projectPath |-> state.projectPath,
   gitBranch |-> state.gitBranch,
   currentPhase |-> state.currentPhase,
   planFilePath |-> state.planFilePath,
   workflowName |-> state.workflowName]

\* A new state that records the default branch whatever branch it is for
NewState_NoBranch(conversationId, projectPath, gitBranch, workflowName, graph, timestamp) ==
  [conversationId |-> conversationId,
   projectPath |-> projectPath,
   gitBranch |-> Default,
   currentPhase |-> graph.initial_state,
   planFilePath |-> PlanFilePath(projectPath, gitBranch),
   workflowName |-> workflowName,
   createdAt |-> timestamp,
   updatedAt |-> timestamp]

\* A new state that starts in idle whatever graph was loaded
NewState_Idle(conversationId, projectPath, gitBranch, workflowName, graph, timestamp) ==
  [conversationId |-> conversationId,
   projectPath |-> projectPath,
   gitBranch |-> gitBranch,
   currentPhase |-> "idle",
   planFilePath |-> PlanFilePath(projectPath, gitBranch),
   workflowName |-> workflowName,
   createdAt |-> timestamp,
   updatedAt |-> timestamp]

\* The state createNewConversationState builds for a loaded graph
NewState(conversationId, projectPath, gitBranch, workflowName, graph, timestamp) ==
  [conversationId |-> conversationId,
   projectPath |-> projectPath,
   gitBranch |-> gitBranch,
   currentPhase |-> graph.initial_state,
   planFilePath |-> PlanFilePath(projectPath, gitBranch),
   workflowName |-> workflowName,
   createdAt |-> timestamp,
   updatedAt |-> timestamp]

\* { ...currentState, ...updates, updatedAt: new Date().toISOString() }
UpdatedState(currentState, updates, timestamp) ==
  [k \in DOMAIN currentState |->
     IF k = "updatedAt" THEN timestamp
     ELSE IF k \in DOMAIN updates THEN updates[k]
     ELSE currentState[k]]

\* database.saveConversationState: the record replaces the row of its id
saveConversationState(store, state) ==
  [k \in DOMAIN store \cup {state.conversationId} |->
     IF k = state.conversationId THEN state ELSE store[k]]

\* database.deleteConversationState
deleteConversationState(store, conversationId) ==
  [k \in DOMAIN store \ {conversationId} |-> store[k]]

Idle == [op |-> "idle", pc |-> "idle"]

Finished == [op |-> "finished", pc |-> "finished"]

\* Call c can begin: the calls of a behaviour begin in the order of their
\* numbers, and run concurrently from then on.
Ready(c) ==
  /\ calls[c] = Idle
  /\ IF c = 1 THEN TRUE ELSE calls[c - 1] # Idle

\* What a finished call gave its caller
Result(op, conversationId, ret) ==
  [op |-> op, id |-> conversationId, ret |-> ret]

NoResult == [op |-> "none"]

Failure(error) == [ok |-> FALSE, error |-> error]

Branches == {Default, Main}

\* The conversation id of each branch of the project in each mode
IdTable ==
  [e \in NodeEnvs |->
     [b \in Branches \cup {Master} |->
        generateConversationId(ProjectPath, b, e)]]

CurrentId(gitBranch) == IdTable[nodeEnv][gitBranch]

KnownIds == {CurrentId(b) : b \in Branches}

\* The partial updates callers pass to updateConversationState
UpdateInputs ==
  { [currentPhase |-> "design"],
    [workflowName |-> "custom"] }

WorkflowInputs == {"waterfall", "custom", "agile"}

\* A read that answers with the session of another branch when the current
\* branch has none
GetConversationContext_AnyBranch(c, gitFails) ==
  /\ Ready(c)
  /\ LET conversationId == CurrentId(getGitBranch(head, gitFails))
         found == IF conversationId \in DOMAIN db \/ DOMAIN db = {}
                  THEN conversationId
                  ELSE CHOOSE id \in DOMAIN db : TRUE
     IN  result' =
           IF found \in DOMAIN db
           THEN Result("get", found,
                       [ok |-> TRUE, context |-> Context(db[found])])
           ELSE Result("get", found, Failure("SessionNotFound"))
  /\ calls' = [calls EXCEPT ![c] = Finished]
  /\ UNCHANGED <<nodeEnv, head, clock, db, logs, planFiles, files,
                 workflowsDir, workflowManager, keyCalls, response, processEnv,
                 server>>

\* getConversationContext: one read, then the context or the error
GetConversationContext(c, gitFails) ==
  /\ Ready(c)
  /\ LET conversationId == CurrentId(getGitBranch(head, gitFails))
     IN  result' =
           IF conversationId \in DOMAIN db
           THEN Result("get", conversationId,
                       [ok |-> TRUE, context |-> Context(db[conversationId])])
           ELSE Result("get", conversationId, Failure("SessionNotFound"))
  /\ calls' = [calls EXCEPT ![c] = Finished]
  /\ UNCHANGED <<nodeEnv, head, clock, db, logs, planFiles, files,
                 workflowsDir, workflowManager, keyCalls, response, processEnv,
                 server>>

\* A create that builds a new state whether or not one is stored
CreateRead_Overwrite(c, workflowName, gitFails) ==
  /\ Ready(c)
  /\ LET gitBranch == getGitBranch(head, gitFails)
         conversationId == CurrentId(gitBranch)
         loaded == loadWorkflowForProject(WorkflowManager(workflowsDir), files,
                                          ProjectPath, workflowName)
     IN  IF ~loaded.ok
         THEN /\ result' = Result("create", conversationId,
                                  Failure(loaded.error))
              /\ calls' = [calls EXCEPT ![c] = Finished]
         ELSE /\ calls' = [calls EXCEPT ![c] =
                   [op |-> "create", pc |-> "save", id |-> conversationId,
                    state |-> NewState(conversationId, ProjectPath, gitBranch,
                                       workflowName, loaded.graph, clock)]]
              /\ UNCHANGED result
  /\ UNCHANGED <<nodeEnv, head, clock, db, logs, planFiles, files,
                 workflowsDir, workflowManager, keyCalls, response, processEnv,
                 server>>

\* createConversationContext up to its write: the read of the existing
\* state, and for a new conversation the state built from the loaded graph.
CreateRead(c, workflowName, gitFails) ==
  /\ Ready(c)
  /\ LET gitBranch == getGitBranch(head, gitFails)
         conversationId == CurrentId(gitBranch)
         loaded == loadWorkflowForProject(WorkflowManager(workflowsDir), files,
                                          ProjectPath, workflowName)
     IN  IF conversationId \in DOMAIN db
         THEN /\ result' = Result("create", conversationId,
                     [ok |-> TRUE, context |-> Context(db[conversationId]),
                      existing |-> TRUE])
              /\ calls' = [calls EXCEPT ![c] = Finished]
         ELSE IF ~loaded.ok
         THEN /\ result' = Result("create", conversationId,
                                  Failure(loaded.error))
              /\ calls' = [calls EXCEPT ![c] = Finished]
         ELSE /\ calls' = [calls EXCEPT ![c] =
                   [op |-> "create", pc |-> "save", id |-> conversationId,
                    state |-> NewState(conversationId, ProjectPath, gitBranch,
                                       workflowName, loaded.graph, clock)]]
              /\ UNCHANGED result
  /\ UNCHANGED <<nodeEnv, head, clock, db, logs, planFiles, files,
                 workflowsDir, workflowManager, keyCalls, response, processEnv,
                 server>>

\* createNewConversationState: database.saveConversationState(newState)
CreateSave(c) ==
  /\ calls[c].op = "create" /\ calls[c].pc = "save"
  /\ db' = saveConversationState(db, calls[c].state)
  /\ calls' = [calls EXCEPT ![c] = Finished]
  /\ result' = Result("create", calls[c].id,
                      [ok |-> TRUE, context |-> Context(calls[c].state),
                       existing |-> FALSE])
  /\ UNCHANGED <<nodeEnv, head, clock, logs, planFiles, files, workflowsDir,
                 workflowManager, keyCalls, response, processEnv, server>>

\* An update that merges into an empty record when none is stored
UpdateRead_Upsert(c, conversationId, updates) ==
  /\ Ready(c)
  /\ calls' = [calls EXCEPT ![c] =
        [op |-> "update", pc |-> "save", id |-> conversationId,
         updates |-> updates,
         state |-> IF conversationId \in DOMAIN db
                   THEN UpdatedState(db[conversationId], updates, clock)
                   ELSE [conversationId |-> conversationId,
                         updatedAt |-> clock]]]
  /\ UNCHANGED <<nodeEnv, head, clock, db, logs, planFiles, files,
                 workflowsDir, workflowManager, result, keyCalls, response,
                 processEnv, server>>

\* updateConversationState up to its write: the read and the merged state
UpdateRead(c, conversationId, updates) ==
  /\ Ready(c)
  /\ IF conversationId \in DOMAIN db
     THEN /\ calls' = [calls EXCEPT ![c] =
               [op |-> "update", pc |-> "save", id |-> conversationId,
                updates |-> updates,
                state |-> UpdatedState(db[conversationId], updates, clock)]]
          /\ UNCHANGED result
     ELSE /\ result' = Result("update", conversationId,
                              Failure("SessionNotFound"))
          /\ calls' = [calls EXCEPT ![c] = Finished]
  /\ UNCHANGED <<nodeEnv, head, clock, db, logs, planFiles, files,
                 workflowsDir, workflowManager, keyCalls, response, processEnv,
                 server>>

\* A write that waits until no other update is between its read and its write
UpdateSave_Exclusive(c) ==
  /\ calls[c].op = "update" /\ calls[c].pc = "save"
  /\ \A other \in Callers \ {c} : calls[other].op # "update"
  /\ db' = saveConversationState(db, calls[c].state)
  /\ calls' = [calls EXCEPT ![c] = Finished]
  /\ result' = Result("update", calls[c].id,
                      [ok |-> TRUE, updates |-> calls[c].updates])
  /\ UNCHANGED <<nodeEnv, head, clock, logs, planFiles, files, workflowsDir,
                 workflowManager, keyCalls, response, processEnv, server>>

\* updateConversationState: database.saveConversationState(updatedState)
UpdateSave(c) ==
  /\ calls[c].op = "update" /\ calls[c].pc = "save"
  /\ db' = saveConversationState(db, calls[c].state)
  /\ calls' = [calls EXCEPT ![c] = Finished]
  /\ result' = Result("update", calls[c].id,
                      [ok |-> TRUE, updates |-> calls[c].updates])
  /\ UNCHANGED <<nodeEnv, head, clock, logs, planFiles, files, workflowsDir,
                 workflowManager, keyCalls, response, processEnv, server>>

\* A reset that goes ahead without looking at confirm
ResetBegin_Unconfirmed(c, confirm, gitFails) ==
  /\ Ready(c)
  /\ LET conversationId == CurrentId(getGitBranch(head, gitFails))
     IN  IF conversationId \notin DOMAIN db
         THEN /\ result' = Result("reset", conversationId,
                                  Failure("SessionNotFound"))
              /\ calls' = [calls EXCEPT ![c] = Finished]
         ELSE /\ calls' = [calls EXCEPT ![c] =
                   [op |-> "reset", pc |-> "logs", id |-> conversationId,
                    context |-> Context(db[conversationId]),
                    resetItems |-> << >>]]
              /\ UNCHANGED result
  /\ UNCHANGED <<nodeEnv, head, clock, db, logs, planFiles, files,
                 workflowsDir, workflowManager, keyCalls, response, processEnv,
                 server>>

\* resetConversation up to its first deletion: the confirmation check and
\* getConversationContext
ResetBegin(c, confirm, gitFails) ==
  /\ Ready(c)
  /\ LET conversationId == CurrentId(getGitBranch(head, gitFails))
     IN  IF ~confirm
         THEN /\ result' = Result("reset", << >>,
                                  Failure("ConfirmationRequired"))
              /\ calls' = [calls EXCEPT ![c] = Finished]
         ELSE IF conversationId \notin DOMAIN db
         THEN /\ result' = Result("reset", conversationId,
                                  Failure("SessionNotFound"))
              /\ calls' = [calls EXCEPT ![c] = Finished]
         ELSE /\ calls' = [calls EXCEPT ![c] =
                   [op |-> "reset", pc |-> "logs", id |-> conversationId,
                    context |-> Context(db[conversationId]),
                    resetItems |-> << >>]]
              /\ UNCHANGED result
  /\ UNCHANGED <<nodeEnv, head, clock, db, logs, planFiles, files,
                 workflowsDir, workflowManager, keyCalls, response, processEnv,
                 server>>

\* The catch block of resetConversation
ResetFailed(c) ==
  /\ calls' = [calls EXCEPT ![c] = Finished]
  /\ result' = Result("reset", calls[c].id, Failure("ResetFailed"))

\* database.softDeleteInteractionLogs(context.conversationId, reason)
ResetLogs(c, succeeds) ==
  /\ calls[c].op = "reset" /\ calls[c].pc = "logs"
  /\ IF succeeds
     THEN /\ logs' = logs \ {calls[c].id}
          /\ calls' = [calls EXCEPT ![c].pc = "state",
                                    ![c].resetItems = <<"interaction_logs">>]
          /\ UNCHANGED result
     ELSE /\ ResetFailed(c)
          /\ UNCHANGED logs
  /\ UNCHANGED <<nodeEnv, head, clock, db, planFiles, files, workflowsDir,
                 workflowManager, keyCalls, response, processEnv, server>>

\* database.deleteConversationState(context.conversationId)
ResetState(c, succeeds) ==
  /\ calls[c].op = "reset" /\ calls[c].pc = "state"
  /\ IF succeeds
     THEN /\ db' = deleteConversationState(db, calls[c].id)
          /\ calls' = [calls EXCEPT ![c].pc = "plan",
                         ![c].resetItems =
                            Append(calls[c].resetItems, "conversation_state")]
          /\ UNCHANGED result
     ELSE /\ ResetFailed(c)
          /\ UNCHANGED db
  /\ UNCHANGED <<nodeEnv, head, clock, logs, planFiles, files, workflowsDir,
                 workflowManager, keyCalls, response, processEnv, server>>

\* planManager.deletePlanFile(context.planFilePath), then the success result
ResetPlan(c, succeeds) ==
  /\ calls[c].op = "reset" /\ calls[c].pc = "plan"
  /\ IF succeeds
     THEN /\ planFiles' = planFiles \ {calls[c].context.planFilePath}
          /\ calls' = [calls EXCEPT ![c] = Finished]
          /\ result' = Result("reset", calls[c].id,
                [ok |-> TRUE, success |-> TRUE,
                 resetItems |-> Append(calls[c].resetItems, "plan_file"),
                 conversationId |-> calls[c].id])
     ELSE /\ ResetFailed(c)
          /\ UNCHANGED planFiles
  /\ UNCHANGED <<nodeEnv, head, clock, db, logs, files, workflowsDir,
                 workflowManager, keyCalls, response, processEnv, server>>

\* cleanupConversationData: database.softDeleteInteractionLogs(conversationId)
CleanupLogs(c, conversationId, succeeds) ==
  /\ Ready(c)
  /\ IF succeeds
     THEN /\ logs' = logs \ {conversationId}
          /\ calls' = [calls EXCEPT ![c] =
               [op |-> "cleanup", pc |-> "state", id |-> conversationId]]
          /\ UNCHANGED result
     ELSE /\ result' = Result("cleanup", conversationId,
                              Failure("CleanupFailed"))
          /\ calls' = [calls EXCEPT ![c] = Finished]
          /\ UNCHANGED logs
  /\ UNCHANGED <<nodeEnv, head, clock, db, planFiles, files, workflowsDir,
                 workflowManager, keyCalls, response, processEnv, server>>

\* cleanupConversationData: database.deleteConversationState(conversationId)
CleanupState(c, succeeds) ==
  /\ calls[c].op = "cleanup" /\ calls[c].pc = "state"
  /\ calls' = [calls EXCEPT ![c] = Finished]
  /\ IF succeeds
     THEN /\ db' = deleteConversationState(db, calls[c].id)
          /\ result' = Result("cleanup", calls[c].id, [ok |-> TRUE])
     ELSE /\ result' = Result("cleanup", calls[c].id,
                              Failure("CleanupFailed"))
          /\ UNCHANGED db
  /\ UNCHANGED <<nodeEnv, head, clock, logs, planFiles, files, workflowsDir,
                 workflowManager, keyCalls, response, processEnv, server>>

\* hasInteractions: the count query, false when it fails
HasInteractions(c, conversationId, succeeds) ==
  /\ Ready(c)
  /\ result' = Result("hasInteractions", conversationId,
                      [ok |-> TRUE, value |-> succeeds /\ conversationId \in logs])
  /\ calls' = [calls EXCEPT ![c] = Finished]
  /\ UNCHANGED <<nodeEnv, head, clock, db, logs, planFiles, files,
                 workflowsDir, workflowManager, keyCalls, response, processEnv,
                 server>>

\* Time passes.
Tick ==
  /\ clock < MaxTime
  /\ clock' = clock + 1
  /\ UNCHANGED <<nodeEnv, head, db, logs, planFiles, files, workflowsDir,
                 workflowManager, calls, result, keyCalls, response, processEnv,
                 server>>

\* The user checks out another branch, or removes or creates the repository.
Checkout(h) ==
  /\ h # head
  /\ head' = h
  /\ UNCHANGED <<nodeEnv, clock, db, logs, planFiles, files, workflowsDir,
                 workflowManager, calls, result, keyCalls, response, processEnv,
                 server>>

\* The end of a tool call on a stored conversation: PlanManager.ensurePlanFile
\* for its plan file path and InteractionLogger.logInteraction
ToolEpilogue(conversationId) ==
  /\ conversationId \in DOMAIN db
  /\ ~(conversationId \in logs /\ db[conversationId].planFilePath \in planFiles)
  /\ logs' = logs \cup {conversationId}
  /\ planFiles' = planFiles \cup {db[conversationId].planFilePath}
  /\ UNCHANGED <<nodeEnv, head, clock, db, files, workflowsDir,
                 workflowManager, calls, result, keyCalls, response, processEnv,
                 server>>

\* The project holds a valid custom workflow as .vibe/workflow.yaml
CustomFiles ==
  [NoCustomFiles EXCEPT ![Join(ProjectPath, ".vibe/workflow.yaml")] =
     ValidFile(CustomGraph)]

\* What an earlier run of the server left behind for the project: nothing,
\* or the session of the branch main as start_development created it, with
\* its plan file and its interaction log.
Persisted0 ==
  LET id == IdTable["production"][Main]
      state == NewState(id, ProjectPath, Main, "waterfall", Waterfall, 0)
  IN  { [db |-> EmptyMap, logs |-> {}, planFiles |-> {}],
        [db |-> saveConversationState(EmptyMap, state), logs |-> {id},
         planFiles |-> {state.planFilePath}] }

Init ==
  /\ nodeEnv = "production"
  /\ head \in Heads
  /\ clock = 0
  /\ \E left \in Persisted0 :
       /\ db = left.db
       /\ logs = left.logs
       /\ planFiles = left.planFiles
  /\ files = CustomFiles
  /\ workflowsDir = Shipped
  /\ workflowManager = WorkflowManager(Shipped)
  /\ calls = [c \in Callers |-> Idle]
  /\ result = NoResult
  /\ keyCalls = << >>
  /\ response = NoResponse
  /\ processEnv = NoEnv
  /\ server = NoServer

Next ==
  \/ \E c \in Callers, gitFails \in BOOLEAN : GetConversationContext(c, gitFails)
  \/ \E c \in Callers, w \in WorkflowInputs, gitFails \in BOOLEAN :
       CreateRead(c, w, gitFails)
  \/ \E c \in Callers : CreateSave(c)
  \/ \E c \in Callers, id \in KnownIds, u \in UpdateInputs : UpdateRead(c, id, u)
  \/ \E c \in Callers : UpdateSave(c)
  \/ \E c \in Callers, confirm \in BOOLEAN, gitFails \in BOOLEAN :
       ResetBegin(c, confirm, gitFails)
  \/ \E c \in Callers, succeeds \in BOOLEAN : ResetLogs(c, succeeds)
  \/ \E c \in Callers, succeeds \in BOOLEAN : ResetState(c, succeeds)
  \/ \E c \in Callers, succeeds \in BOOLEAN : ResetPlan(c, succeeds)
  \/ \E c \in Callers, id \in KnownIds, succeeds \in BOOLEAN :
       CleanupLogs(c, id, succeeds)
  \/ \E c \in Callers, succeeds \in BOOLEAN : CleanupState(c, succeeds)
  \/ \E c \in Callers, id \in KnownIds, succeeds \in BOOLEAN :
       HasInteractions(c, id, succeeds)
  \/ Tick
  \/ \E h \in Heads : Checkout(h)
  \/ \E id \in KnownIds : ToolEpilogue(id)

Spec == Init /\ [][Next]_vars


----------------------------------------------------------------------------
(* Properties of the session store *)

\* C1: concurrent updates of one session that write different fields lose
\* no update: a field written by the update that finished last, and still
\* held by the store, is still held after another update of the same
\* session has written a different field.
C1_NoLostUpdate ==
  [][\A c \in Callers :
       ( /\ UpdateSave(c)
         /\ result.op = "update"
         /\ result.ret.ok
         /\ result.id = calls[c].id
         /\ result.id \in DOMAIN db
         /\ DOMAIN result.ret.updates \cap DOMAIN calls[c].updates = {} )
         => \A k \in DOMAIN result.ret.updates :
              db[result.id][k] = result.ret.updates[k]
                => db'[result.id][k] = result.ret.updates[k]]_vars

\* C2: a create for a key whose session exists returns that session with
\* every field unchanged, whatever workflow it names, and writes nothing.
C2_CreateIdempotent ==
  [][\A c \in Callers :
       (calls[c] = Idle /\ calls'[c] # Idle)
         => \A w \in WorkflowInputs, gitFails \in BOOLEAN :
              LET id == CurrentId(getGitBranch(head, gitFails))
              IN  (id \in DOMAIN db /\ CreateRead(c, w, gitFails))
                    => /\ db' = db
                       /\ calls'[c] = Finished
                       /\ result' = Result("create", id,
                            [ok |-> TRUE, context |-> Context(db[id]),
                             existing |-> TRUE])]_vars

\* A create has just returned the stored session, which had moved on from
\* its initial phase and workflow.
C2_Witness ==
  /\ result.op = "create"
  /\ result.ret.ok
  /\ result.ret.existing
  /\ result.id \in DOMAIN db
  /\ result.ret.context = Context(db[result.id])
  /\ result.ret.context.currentPhase = "design"

\* C3: an update and a read of a key with no stored session fail with the
\* session-not-found error and leave the store without a session for the key.
C3_MissingSessionFails ==
  [][\A c \in Callers :
       (calls[c] = Idle /\ calls'[c] # Idle)
         => /\ \A id \in KnownIds \ DOMAIN db, u \in UpdateInputs :
                 UpdateRead(c, id, u)
                   => /\ result' = Result("update", id,
                                          Failure("SessionNotFound"))
                      /\ calls'[c] = Finished
                      /\ db' = db
            /\ \A gitFails \in BOOLEAN :
                 LET id == CurrentId(getGitBranch(head, gitFails))
                 IN  (id \notin DOMAIN db /\ GetConversationContext(c, gitFails))
                       => /\ result' = Result("get", id,
                                              Failure("SessionNotFound"))
                          /\ db' = db]_vars

\* An update of a key without a session has failed while another key holds
\* one, and the store still has none for the key.
C3_Witness ==
  /\ result.op = "update"
  /\ result.ret = Failure("SessionNotFound")
  /\ result.id \notin DOMAIN db
  /\ DOMAIN db # {}

\* The graph a workflow name resolves to for the project
GraphOf(workflowName) ==
  loadWorkflowForProject(workflowManager, files, ProjectPath,
                         workflowName).graph

\* C8: each stored session's currentPhase is a phase of the graph its
\* workflowName resolves to.
C8_PhaseInGraph ==
  \A id \in DOMAIN db :
    db[id].currentPhase \in DOMAIN GraphOf(db[id].workflowName).states

\* C9: a stored session is removed by no step other than one of a reset
\* the caller confirmed.
C9_OnlyConfirmedResetDeletes ==
  [][\A id \in DOMAIN db :
       id \notin DOMAIN db'
         => \E c \in Callers : calls[c].op = "reset" /\ calls[c].id = id]_vars

\* C10: when a confirmed reset returns success, the session record is gone.
C10_GoneAfterReset ==
  [][\A c \in Callers :
       ResetPlan(c, TRUE) => calls[c].id \notin DOMAIN db']_vars


\* C11: a reset called with confirm = false fails with an error before it
\* touches anything: the session records, the plan documents and the audit
\* history are unchanged, whether or not a session exists.
C11_UnconfirmedResetTouchesNothing ==
  [][\A c \in Callers :
       (calls[c] = Idle /\ calls'[c] # Idle)
         => \A gitFails \in BOOLEAN :
              ResetBegin(c, FALSE, gitFails)
                => /\ result'.ret = Failure("ConfirmationRequired")
                   /\ calls'[c] = Finished
                   /\ db' = db
                   /\ logs' = logs
                   /\ planFiles' = planFiles]_vars

\* An unconfirmed reset has failed, and the session of the current branch,
\* its plan file and its log are in place.
C11_Witness ==
  /\ result.op = "reset"
  /\ result.ret = Failure("ConfirmationRequired")
  /\ \E id \in DOMAIN db :
       /\ id = CurrentId(getGitBranch(head, FALSE))
       /\ id \in logs
       /\ db[id].planFilePath \in planFiles

\* C20: branch detection never raises: without .git, and when the git
\* command fails, it answers 'default'; a read or a create then works on the
\* session of 'default' and fails, if at all, only for a missing session or
\* for a workflow that does not resolve.
C20_BranchDetectionNeverFails ==
  [][\A c \in Callers :
       (calls[c] = Idle /\ calls'[c] # Idle)
         => \A gitFails \in BOOLEAN :
              (gitFails \/ ~head.git)
                => /\ getGitBranch(head, gitFails) = Default
                   /\ ( /\ calls'[c] = Finished
                        /\ result'.op = "get"
                        /\ GetConversationContext(c, gitFails) )
                        => /\ result'.id = CurrentId(Default)
                           /\ \/ result'.ret.ok
                              \/ result'.ret.error = "SessionNotFound"
                           /\ result'.ret.ok = (CurrentId(Default) \in DOMAIN db)
                   /\ \A w \in WorkflowInputs :
                        ( /\ IF calls'[c] = Finished
                             THEN result'.op = "create"
                             ELSE calls'[c].op = "create"
                          /\ CreateRead(c, w, gitFails) )
                          => IF calls'[c] = Finished
                             THEN /\ result'.id = CurrentId(Default)
                                  /\ \/ result'.ret.ok
                                     \/ result'.ret.error \in
                                          {"UnknownWorkflow",
                                           "CustomWorkflowMissing",
                                           "DefinitionInvalid"}
                             ELSE /\ calls'[c].id = CurrentId(Default)
                                  /\ calls'[c].state.gitBranch = Default]_vars

\* A session was created and stored under the key of 'default'.
C20_Witness ==
  /\ result.op = "create"
  /\ result.ret.ok
  /\ result.id = CurrentId(Default)
  /\ CurrentId(Default) \in DOMAIN db
  /\ db[CurrentId(Default)].gitBranch = Default

\* The store an earlier run left with the sessions of both keys of the
\* project: the one of the branch main and the one of 'default'
TwoSessions ==
  LET Session(b) ==
        NewState(IdTable["production"][b], ProjectPath, b, "waterfall",
                 Waterfall, 0)
  IN  saveConversationState(
        saveConversationState(EmptyMap, Session(Main)), Session(Default))

InitTwoSessions ==
  /\ nodeEnv = "production"
  /\ head \in Heads
  /\ clock = 0
  /\ db = TwoSessions
  /\ logs = {}
  /\ planFiles = {}
  /\ files = CustomFiles
  /\ workflowsDir = Shipped
  /\ workflowManager = WorkflowManager(Shipped)
  /\ calls = [c \in Callers |-> Idle]
  /\ result = NoResult
  /\ keyCalls = << >>
  /\ response = NoResponse
  /\ processEnv = NoEnv
  /\ server = NoServer

\* Reads, updates and resets of the two sessions, by concurrent callers
NextTwoSessions ==
  \/ \E c \in Callers, gitFails \in BOOLEAN : GetConversationContext(c, gitFails)
  \/ \E c \in Callers, id \in KnownIds, u \in UpdateInputs : UpdateRead(c, id, u)
  \/ \E c \in Callers : UpdateSave(c)
  \/ \E c \in Callers, confirm \in BOOLEAN, gitFails \in BOOLEAN :
       ResetBegin(c, confirm, gitFails)
  \/ \E c \in Callers, succeeds \in BOOLEAN : ResetLogs(c, succeeds)
  \/ \E c \in Callers, succeeds \in BOOLEAN : ResetState(c, succeeds)
  \/ \E c \in Callers, succeeds \in BOOLEAN : ResetPlan(c, succeeds)
  \/ Tick

SpecTwoSessions == InitTwoSessions /\ [][NextTwoSessions]_vars

\* Call c is between the read and the write of an update of the session id
Updating(c, id) ==
  /\ calls[c].op = "update"
  /\ calls[c].pc = "save"
  /\ calls[c].id = id

\* C21: an update of the session of key A is never blocked by an update in
\* progress on another key B: while B's update is between its read and its
\* write, the read of an update of A is enabled for a caller that can begin
\* and the write of an update of A in progress is enabled; each write stores
\* its own record under its own key and leaves every other key as it was.
C21_UpdatesOfOtherKeysNotBlocked ==
  /\ [](\A b \in Callers, idB \in KnownIds :
          Updating(b, idB)
            => \A a \in Callers \ {b}, idA \in KnownIds \ {idB} :
                 /\ Ready(a)
                      => \A u \in UpdateInputs : ENABLED UpdateRead(a, idA, u)
                 /\ Updating(a, idA) => ENABLED UpdateSave(a))
  /\ [][\A c \in Callers :
          (calls[c].op = "update" /\ calls'[c] = Finished /\ UpdateSave(c))
            => /\ calls[c].id \in DOMAIN db'
               /\ db'[calls[c].id] = calls[c].state
               /\ \A k \in DOMAIN db \ {calls[c].id} :
                    k \in DOMAIN db' /\ db'[k] = db[k]]_vars

\* Two updates are in progress at once, one of the session of main and one
\* of the session of 'default'.
C21_Witness ==
  \E a \in Callers, b \in Callers :
    /\ Updating(a, CurrentId(Main))
    /\ Updating(b, CurrentId(Default))
    /\ CurrentId(Main) \in DOMAIN db
    /\ CurrentId(Default) \in DOMAIN db

\* Call c takes in this step the first step of a createConversationContext
BeginsCreate(c) ==
  /\ calls[c] = Idle
  /\ calls'[c] # Idle
  /\ IF calls'[c] = Finished THEN result'.op = "create"
     ELSE calls'[c].op = "create"

\* C26: create persists a new session only after the workflow is resolved:
\* the state it goes on to save has the requested workflowName and the
\* initial_state of the graph that name resolves to as currentPhase, nothing
\* is stored before the write, the write stores that state, and a create
\* whose resolution fails ends with the failure and stores no session.
C26_CreateAfterResolution ==
  [][\A c \in Callers :
       /\ BeginsCreate(c)
            => \A w \in WorkflowInputs, gitFails \in BOOLEAN :
                 (/\ CurrentId(getGitBranch(head, gitFails)) =
                       (IF calls'[c] = Finished THEN result'.id
                        ELSE calls'[c].id)
                  /\ CreateRead(c, w, gitFails))
                   => LET loaded ==
                            loadWorkflowForProject(workflowManager, files,
                                                   ProjectPath, w)
                          id == CurrentId(getGitBranch(head, gitFails))
                      IN  /\ db' = db
                          /\ calls'[c] # Finished
                               => /\ loaded.ok
                                  /\ calls'[c].state.workflowName = w
                                  /\ calls'[c].state.currentPhase =
                                       loaded.graph.initial_state
                          /\ (calls'[c] = Finished /\ ~result'.ret.ok)
                               => ~loaded.ok /\ id \notin DOMAIN db'
                          /\ (~loaded.ok /\ id \notin DOMAIN db)
                               => calls'[c] = Finished /\ ~result'.ret.ok
       /\ (calls[c].op = "create" /\ calls'[c] = Finished /\ CreateSave(c))
            => /\ calls[c].id \in DOMAIN db'
               /\ db'[calls[c].id] = calls[c].state]_vars

\* A create for the project's custom workflow has stored a new session that
\* starts in plan, the initial_state of the custom graph.
C26_Witness ==
  /\ result.op = "create"
  /\ result.ret.ok
  /\ ~result.ret.existing
  /\ result.ret.context.workflowName = "custom"
  /\ result.id \in DOMAIN db
  /\ db[result.id].currentPhase = CustomGraph.initial_state
  /\ db[result.id].currentPhase # Waterfall.initial_state

\* The call that finished last is a confirmed reset of the session id that
\* succeeded
ResetDone(id) ==
  /\ result.op = "reset"
  /\ result.ret.ok
  /\ result.id = id

\* C27: once a confirmed reset of a session has completed the session stays
\* absent until the next create: an update of that session that was in
\* flight during the reset does not write the session back.
C27_UpdateNeverRevivesSession ==
  [][\A c \in Callers :
       ( /\ calls[c].op = "update"
         /\ calls[c].pc = "save"
         /\ ResetDone(calls[c].id)
         /\ calls[c].id \notin DOMAIN db
         /\ UpdateSave(c) )
         => calls[c].id \notin DOMAIN db']_vars

\* C28: of two concurrent creates for a key that has no session at most one
\* writes: a create that reaches its write when a session is stored for the
\* key leaves that session as it is and returns it, also when the two
\* creates name different workflows.
C28_SecondCreateNeverOverwrites ==
  [][\A c \in Callers :
       ( /\ calls[c].op = "create"
         /\ calls[c].pc = "save"
         /\ calls[c].id \in DOMAIN db
         /\ \E other \in Callers \ {c} : calls[other] = Finished
         /\ result.op = "create"
         /\ result.id = calls[c].id
         /\ CreateSave(c) )
         => /\ db'[calls[c].id] = db[calls[c].id]
            /\ result'.ret.context = Context(db[calls[c].id])]_vars

\* C29: a successful update changes only the fields it names and updatedAt:
\* every other field of the stored session has after the update's write the
\* value it had before it.
C29_UpdateChangesOnlyNamedFields ==
  [][\A c \in Callers :
       ( /\ calls[c].op = "update"
         /\ calls[c].pc = "save"
         /\ calls[c].id \in DOMAIN db
         /\ UpdateSave(c) )
         => \A k \in DOMAIN db[calls[c].id] \
                       (DOMAIN calls[c].updates \cup {"updatedAt"}) :
              db'[calls[c].id][k] = db[calls[c].id][k]]_vars

\* The stored session of key k is not after this step what it was before
Changed(k) ==
  IF k \in DOMAIN db
  THEN k \notin DOMAIN db' \/ db'[k] # db[k]
  ELSE k \in DOMAIN db'

\* The keys a call that begins now resolves to: that of the branch of HEAD,
\* or that of the default branch when the detection fails
ResolvedIds == {CurrentId(getGitBranch(head, gitFails)) : gitFails \in BOOLEAN}

C31_FailedResetDeletesNothing ==
  [][\A c \in Callers :
       ( /\ calls[c].op = "reset"
         /\ calls'[c] = Finished
         /\ result'.op = "reset"
         /\ ~result'.ret.ok )
         => /\ calls[c].id \in DOMAIN db'
            /\ calls[c].resetItems = << >>]_vars

\* The fields that say whose session a record is
IdentityFields == {"conversationId", "projectPath", "gitBranch"}

\* C32: every stored record is stored under its own conversationId, which
\* is the key computed from its projectPath and its gitBranch, and no step
\* changes the conversationId, the projectPath or the gitBranch of a record
\* that stays stored.
C32_RecordsKeepTheirIdentity ==
  /\ [](\A id \in DOMAIN db :
          /\ db[id].conversationId = id
          /\ db[id].projectPath = ProjectPath
          /\ db[id].gitBranch \in Branches
          /\ id = IdTable[nodeEnv][db[id].gitBranch])
  /\ [][\A id \in DOMAIN db \cap DOMAIN db' :
          \A k \in IdentityFields : db'[id][k] = db[id][k]]_vars

\* The sessions of both branches are stored, the one of main after an update
\* and the one of the default branch after a create for the custom workflow.
C32_Witness ==
  /\ DOMAIN db = KnownIds
  /\ db[CurrentId(Main)].currentPhase = "design"
  /\ db[CurrentId(Main)].gitBranch = Main
  /\ db[CurrentId(Default)].workflowName = "custom"
  /\ db[CurrentId(Default)].gitBranch = Default

\* The project with HEAD on main or on master
MainMasterHeads == {OnBranch(Main), OnBranch(Master)}

MainMasterIds == {CurrentId(Main), CurrentId(Master)}

InitMainMaster ==
  /\ nodeEnv = "production"
  /\ head \in MainMasterHeads
  /\ clock = 0
  /\ db = EmptyMap
  /\ logs = {}
  /\ planFiles = {}
  /\ files = CustomFiles
  /\ workflowsDir = Shipped
  /\ workflowManager = WorkflowManager(Shipped)
  /\ calls = [c \in Callers |-> Idle]
  /\ result = NoResult
  /\ keyCalls = << >>
  /\ response = NoResponse
  /\ processEnv = NoEnv
  /\ server = NoServer

\* Sessions are created and reset while the user moves between main and
\* master; the tool calls on a stored session write its plan file and log
NextMainMaster ==
  \/ \E c \in Callers, w \in {"waterfall", "custom"} : CreateRead(c, w, FALSE)
  \/ \E c \in Callers : CreateSave(c)
  \/ \E c \in Callers : ResetBegin(c, TRUE, FALSE)
  \/ \E c \in Callers, succeeds \in BOOLEAN : ResetLogs(c, succeeds)
  \/ \E c \in Callers, succeeds \in BOOLEAN : ResetState(c, succeeds)
  \/ \E c \in Callers, succeeds \in BOOLEAN : ResetPlan(c, succeeds)
  \/ \E h \in MainMasterHeads : Checkout(h)
  \/ \E id \in MainMasterIds : ToolEpilogue(id)

SpecMainMaster == InitMainMaster /\ [][NextMainMaster]_vars

\* C33: no two stored sessions with different keys have the same plan
\* document path, and the reset of one session deletes the plan document of
\* no other stored session; the sessions of main and of master are two such
\* sessions.
C33_PlanDocumentsNotShared ==
  /\ [](\A id1, id2 \in DOMAIN db :
          id1 # id2 => db[id1].planFilePath # db[id2].planFilePath)
  /\ [][\A c \in Callers :
          (calls[c].op = "reset" /\ calls[c].pc = "plan" /\ ResetPlan(c, TRUE))
            => \A id \in DOMAIN db \ {calls[c].id} :
                 db[id].planFilePath \in planFiles
                   => db[id].planFilePath \in planFiles']_vars

----------------------------------------------------------------------------
(* Transition engine and the request layer that persists its result *)

\* A reading of the flat shape only: a nested edge has no target
EdgeTarget_FlatOnly(e) == IF "to" \in DOMAIN e THEN e.to ELSE ""

\* The two shapes of a transition, read as one edge
EdgeTarget(e) == IF "to" \in DOMAIN e THEN e.to ELSE e.target

EdgeInstructions(e) ==
  IF "instructions" \in DOMAIN e THEN e.instructions
  ELSE e.side_effects.instructions

EdgeReason(e) ==
  IF "transition_reason" \in DOMAIN e THEN e.transition_reason
  ELSE e.side_effects.transition_reason

\* The least index of a non-empty set of indices: the first match wins
First(indices) == CHOOSE i \in indices : \A j \in indices : i <= j

PhaseNotFound(requested, graph) ==
  [ok |-> FALSE, error |-> "PhaseNotFound", requested |-> requested,
   validPhases |-> DOMAIN graph.states]

Moved(phase, instructions, reason) ==
  [ok |-> TRUE, phase |-> phase, instructions |-> instructions,
   reason |-> reason]

\* The generic guidance of a jump to a phase without a direct_transitions entry
GenericInstructions == "Direct transition."
GenericReason == "Direct transition"

\* A trigger engine that stays in the current phase when no edge matches
TriggerTransition_Stay(graph, currentPhase, trigger) ==
  LET edges == graph.states[currentPhase].transitions
      matches == {i \in DOMAIN edges : edges[i].trigger = trigger}
  IN  IF matches = {}
      THEN Moved(currentPhase, GenericInstructions, GenericReason)
      ELSE Moved(EdgeTarget(edges[First(matches)]),
                 EdgeInstructions(edges[First(matches)]),
                 EdgeReason(edges[First(matches)]))

\* Modeled-trigger transition: the edge of the current phase that matches
TriggerTransition(graph, currentPhase, trigger) ==
  LET edges == graph.states[currentPhase].transitions
      matches == {i \in DOMAIN edges : edges[i].trigger = trigger}
  IN  IF matches = {}
      THEN PhaseNotFound(trigger, graph)
      ELSE Moved(EdgeTarget(edges[First(matches)]),
                 EdgeInstructions(edges[First(matches)]),
                 EdgeReason(edges[First(matches)]))

\* An explicit jump that is refused when no edge of the current phase
\* targets the phase
ExplicitTransition_EdgesOnly(graph, currentPhase, target) ==
  LET edges == graph.states[currentPhase].transitions
      viaEdge == {i \in DOMAIN edges : EdgeTarget(edges[i]) = target}
  IN  IF target \notin DOMAIN graph.states \/ viaEdge = {}
      THEN PhaseNotFound(target, graph)
      ELSE Moved(target, EdgeInstructions(edges[First(viaEdge)]),
                 EdgeReason(edges[First(viaEdge)]))

\* Explicit phase jump: the guidance of an edge of the current phase that
\* targets the phase, else of its direct_transitions entry, else generic
ExplicitTransition(graph, currentPhase, target) ==
  LET edges == graph.states[currentPhase].transitions
      viaEdge == {i \in DOMAIN edges : EdgeTarget(edges[i]) = target}
      rules == graph.direct_transitions
      viaRule == {i \in DOMAIN rules : rules[i].state = target}
  IN  IF target \notin DOMAIN graph.states
      THEN PhaseNotFound(target, graph)
      ELSE IF viaEdge # {}
      THEN Moved(target, EdgeInstructions(edges[First(viaEdge)]),
                 EdgeReason(edges[First(viaEdge)]))
      ELSE IF viaRule # {}
      THEN Moved(target, rules[First(viaRule)].instructions,
                 rules[First(viaRule)].transition_reason)
      ELSE Moved(target, GenericInstructions, GenericReason)

\* The key of the one session the request layer serves
EngineId == CurrentId(getGitBranch(head, FALSE))

\* The trigger names of a graph
TriggersOf(graph) ==
  UNION { {graph.states[ph].transitions[i].trigger :
             i \in DOMAIN graph.states[ph].transitions} :
          ph \in DOMAIN graph.states }

\* The triggers and target phases callers send
TriggerInputs ==
  TriggersOf(Waterfall) \cup TriggersOf(CustomGraph) \cup {"skip_to_done"}

PhaseInputs ==
  DOMAIN Waterfall.states \cup DOMAIN CustomGraph.states \cup {"nowhere"}

\* The response to a request the session of which is missing
NoSession(kind) ==
  [kind |-> kind, ok |-> FALSE, error |-> "SessionNotFound"]

\* The response to a transition request, with the request it answers
Answer(kind, state, request, outcome) ==
  [kind |-> kind, workflow |-> state.workflowName,
   from |-> state.currentPhase, request |-> request, outcome |-> outcome,
   conversation_id |-> state.conversationId]


\* The session with the phase of a transition, as the request layer stores it
Persisted(state, phase) ==
  saveConversationState(db,
    UpdatedState(state, [currentPhase |-> phase], clock))

\* Start a session with a named workflow: createConversationContext, whole
StartDevelopment(workflowName) ==
  /\ LET gitBranch == getGitBranch(head, FALSE)
         loaded == loadWorkflowForProject(WorkflowManager(workflowsDir), files,
                                          ProjectPath, workflowName)
     IN  IF EngineId \in DOMAIN db
         THEN /\ response' = [kind |-> "start", ok |-> TRUE,
                              phase |-> db[EngineId].currentPhase,
                              conversation_id |-> EngineId]
              /\ UNCHANGED db
         ELSE IF ~loaded.ok
         THEN /\ response' = [kind |-> "start", ok |-> FALSE,
                              error |-> loaded.error]
              /\ UNCHANGED db
         ELSE /\ db' = saveConversationState(db,
                         NewState(EngineId, ProjectPath, gitBranch,
                                  workflowName, loaded.graph, clock))
              /\ response' = [kind |-> "start", ok |-> TRUE,
                              phase |-> loaded.graph.initial_state,
                              conversation_id |-> EngineId]
  /\ UNCHANGED <<nodeEnv, head, clock, logs, planFiles, files, workflowsDir,
                 workflowManager, calls, result, keyCalls, processEnv, server>>

\* The response to a transition the store failed to persist: the error of
\* updateConversationState reaches the caller in place of the answer
PersistFailed(kind, state) ==
  [kind |-> kind, ok |-> FALSE, error |-> "PersistFailed",
   conversation_id |-> state.conversationId]

\* Advance via trigger: the engine's transition, persisted before the answer;
\* persists tells whether the store accepts the write
WhatsNext(trigger, persists) ==
  /\ IF EngineId \notin DOMAIN db
     THEN /\ response' = NoSession("trigger")
          /\ UNCHANGED db
     ELSE LET state == db[EngineId]
              outcome == TriggerTransition(GraphOf(state.workflowName),
                                           state.currentPhase, trigger)
          IN  IF ~outcome.ok
              THEN /\ response' = Answer("trigger", state, trigger, outcome)
                   /\ UNCHANGED db
              ELSE IF ~persists
              THEN /\ response' = PersistFailed("trigger", state)
                   /\ UNCHANGED db
              ELSE /\ db' = Persisted(state, outcome.phase)
                   /\ response' = Answer("trigger", state, trigger, outcome)
  /\ UNCHANGED <<nodeEnv, head, clock, logs, planFiles, files, workflowsDir,
                 workflowManager, calls, result, keyCalls, processEnv, server>>

\* A jump that answers with the engine's outcome whatever the store did
ProceedToPhase_AnswerFirst(target, persists) ==
  /\ IF EngineId \notin DOMAIN db
     THEN /\ response' = NoSession("proceed")
          /\ UNCHANGED db
     ELSE LET state == db[EngineId]
              outcome == ExplicitTransition(GraphOf(state.workflowName),
                                            state.currentPhase, target)
          IN  /\ response' = Answer("proceed", state, target, outcome)
              /\ IF outcome.ok /\ persists
                 THEN db' = Persisted(state, outcome.phase)
                 ELSE UNCHANGED db
  /\ UNCHANGED <<nodeEnv, head, clock, logs, planFiles, files, workflowsDir,
                 workflowManager, calls, result, keyCalls, processEnv, server>>

\* Jump explicitly to a named phase, persisted before the answer; persists
\* tells whether the store accepts the write
ProceedToPhase(target, persists) ==
  /\ IF EngineId \notin DOMAIN db
     THEN /\ response' = NoSession("proceed")
          /\ UNCHANGED db
     ELSE LET state == db[EngineId]
              outcome == ExplicitTransition(GraphOf(state.workflowName),
                                            state.currentPhase, target)
          IN  IF ~outcome.ok
              THEN /\ response' = Answer("proceed", state, target, outcome)
                   /\ UNCHANGED db
              ELSE IF ~persists
              THEN /\ response' = PersistFailed("proceed", state)
                   /\ UNCHANGED db
              ELSE /\ db' = Persisted(state, outcome.phase)
                   /\ response' = Answer("proceed", state, target, outcome)
  /\ UNCHANGED <<nodeEnv, head, clock, logs, planFiles, files, workflowsDir,
                 workflowManager, calls, result, keyCalls, processEnv, server>>

\* Reset the session with confirmation: resetConversation(true), whole
ResetDevelopment ==
  /\ EngineId \in DOMAIN db
  /\ db' = deleteConversationState(db, EngineId)
  /\ response' = [kind |-> "reset", ok |-> TRUE,
                  conversation_id |-> EngineId]
  /\ UNCHANGED <<nodeEnv, head, clock, logs, planFiles, files, workflowsDir,
                 workflowManager, calls, result, keyCalls, processEnv, server>>

InitEngine ==
  /\ nodeEnv = "production"
  /\ head = OnBranch(Main)
  /\ clock = 0
  /\ db = EmptyMap
  /\ logs = {}
  /\ planFiles = {}
  /\ files = CustomFiles
  /\ workflowsDir = Shipped
  /\ workflowManager = WorkflowManager(Shipped)
  /\ calls = EmptyMap
  /\ result = NoResult
  /\ keyCalls = << >>
  /\ response = NoResponse
  /\ processEnv = NoEnv
  /\ server = NoServer

NextEngine ==
  \/ \E w \in WorkflowInputs : StartDevelopment(w)
  \/ \E trigger \in TriggerInputs, persists \in BOOLEAN :
       WhatsNext(trigger, persists)
  \/ \E target \in PhaseInputs, persists \in BOOLEAN :
       ProceedToPhase(target, persists)
  \/ ResetDevelopment

SpecEngine == InitEngine /\ [][NextEngine]_vars

\* The edges of a phase that lead to a target
EdgesTo(graph, phase, target) ==
  {i \in DOMAIN graph.states[phase].transitions :
     EdgeTarget(graph.states[phase].transitions[i]) = target}

\* The direct_transitions entries of a graph for a phase
RulesFor(graph, phase) ==
  {i \in DOMAIN graph.direct_transitions :
     graph.direct_transitions[i].state = phase}

\* C6: an explicit jump to a declared phase of the session's graph succeeds
\* from every current phase, the session is then in the target phase, and
\* when no edge of the current phase leads there the guidance is the text
\* of the phase's direct_transitions entry, or the generic text when the
\* graph has no entry for the phase.
C6_ExplicitJumpSucceeds ==
  (response.kind = "proceed" /\ "request" \in DOMAIN response
     /\ response.request \in DOMAIN GraphOf(response.workflow).states)
    => LET graph == GraphOf(response.workflow)
           target == response.request
       IN  /\ response.outcome.ok
           /\ response.outcome.phase = target
           /\ db[response.conversation_id].currentPhase = target
           /\ EdgesTo(graph, response.from, target) = {}
                => \/ \E i \in RulesFor(graph, target) :
                        response.outcome.instructions =
                          graph.direct_transitions[i].instructions
                   \/ /\ RulesFor(graph, target) = {}
                      /\ response.outcome.instructions = GenericInstructions

\* A jump from requirements to testing, which no edge of requirements
\* targets, was answered with the direct_transitions text of testing.
C6_Witness ==
  /\ response.kind = "proceed" /\ "request" \in DOMAIN response
  /\ response.workflow = "waterfall"
  /\ response.from = "requirements"
  /\ response.request = "testing"
  /\ response.outcome.ok
  /\ EdgesTo(Waterfall, "requirements", "testing") = {}
  /\ RulesFor(Waterfall, "testing") # {}
  /\ db[response.conversation_id].currentPhase = "testing"

\* C7: a trigger that matches an edge of the current phase moves the session
\* to that edge's target (new_feature_request on idle gives requirements); a
\* trigger that matches no edge of the current phase fails with PhaseNotFound
\* naming the phases of the graph, and the session stays in its phase.
C7_TriggerMatching ==
  (response.kind = "trigger" /\ "request" \in DOMAIN response)
    => LET graph == GraphOf(response.workflow)
           edges == graph.states[response.from].transitions
           stored == db[response.conversation_id].currentPhase
       IN  /\ \A i \in DOMAIN edges :
                edges[i].trigger = response.request
                  => /\ response.outcome.ok
                     /\ response.outcome.phase = EdgeTarget(edges[i])
                     /\ stored = EdgeTarget(edges[i])
           /\ (\A i \in DOMAIN edges : edges[i].trigger # response.request)
                => /\ ~response.outcome.ok
                   /\ response.outcome.error = "PhaseNotFound"
                   /\ response.outcome.validPhases = DOMAIN graph.states
                   /\ stored = response.from
           /\ ( /\ response.workflow = "waterfall"
                /\ response.from = "idle"
                /\ response.request = "new_feature_request" )
                => stored = "requirements"

\* skip_to_done on requirements was refused, naming the phases of waterfall,
\* and the session is still in requirements.
C7_Witness ==
  /\ response.kind = "trigger" /\ "request" \in DOMAIN response
  /\ response.workflow = "waterfall"
  /\ response.from = "requirements"
  /\ response.request = "skip_to_done"
  /\ ~response.outcome.ok
  /\ response.outcome.error = "PhaseNotFound"
  /\ db[response.conversation_id].currentPhase = "requirements"

\* The response r tells a transition request that the session moved
Success(r) ==
  /\ r.kind \in {"trigger", "proceed"}
  /\ "outcome" \in DOMAIN r
  /\ r.outcome.ok

----------------------------------------------------------------------------
(* Workflow resolution while the files on disk change *)

\* The names a resolution is asked for; "" is a missing name
NameInputs == WorkflowInputs \cup {"", "minimal"}

\* What a candidate file of the project may hold at start, and after a write
InitialContents == {Absent, ValidFile(CustomGraph), Malformed}
CustomContents == InitialContents \cup {ValidFile(CustomEdited)}

\* A candidate file of the project is created, changed or removed
WriteCustom(path, content) ==
  /\ files[path] # content
  /\ files' = [files EXCEPT ![path] = content]
  /\ UNCHANGED <<nodeEnv, head, clock, db, logs, planFiles, workflowsDir,
                 workflowManager, calls, result, keyCalls, response, processEnv,
                 server>>

\* One resolution by the manager of the server context; changed tells
\* whether the resolution of the same name before it gave something else
ResolveWorkflow(workflowName) ==
  /\ LET outcome == loadWorkflowForProject(workflowManager, files,
                                           ProjectPath, workflowName)
     IN  response' =
           [kind |-> "resolve", name |-> workflowName, outcome |-> outcome,
            changed |-> /\ response.kind = "resolve"
                        /\ response.name = workflowName
                        /\ response.outcome # outcome]
  /\ UNCHANGED <<nodeEnv, head, clock, db, logs, planFiles, files,
                 workflowsDir, workflowManager, calls, result, keyCalls, processEnv,
                 server>>

InitCustom ==
  /\ nodeEnv = "production"
  /\ head = OnBranch(Main)
  /\ clock = 0
  /\ db = EmptyMap
  /\ logs = {}
  /\ planFiles = {}
  /\ files \in [DOMAIN NoCustomFiles -> InitialContents]
  /\ workflowsDir = Shipped
  /\ workflowManager = WorkflowManager(Shipped)
  /\ calls = EmptyMap
  /\ result = NoResult
  /\ keyCalls = << >>
  /\ response = NoResponse
  /\ processEnv = NoEnv
  /\ server = NoServer

NextCustom ==
  \/ \E path \in DOMAIN NoCustomFiles, content \in CustomContents :
       WriteCustom(path, content)
  \/ \E w \in NameInputs : ResolveWorkflow(w)

SpecCustom == InitCustom /\ [][NextCustom]_vars

\* A path given relative to the project directory
InProject(rel) == Join(<< >>, rel)

\* The candidates of the project, and the first of them that exists
Candidates == customFilePaths(ProjectPath)

IsFirstExisting(i) ==
  /\ ExistsSync(files, Candidates[i])
  /\ \A j \in 1..(i - 1) : ~ExistsSync(files, Candidates[j])

\* C12: a resolution of 'custom' tries .vibe/state-machine.yaml,
\* .vibe/state-machine.yml, .vibe/workflow.yaml and .vibe/workflow.yml in
\* this order and loads the first that exists; a later candidate is never
\* used when an earlier one exists.
C12_FirstExistingCandidateLoaded ==
  [][ResolveWorkflow("custom")
       => /\ [i \in DOMAIN Candidates |->
                Relative(ProjectPath, Candidates[i])]
               = <<InProject(".vibe/state-machine.yaml"),
                   InProject(".vibe/state-machine.yml"),
                   InProject(".vibe/workflow.yaml"),
                   InProject(".vibe/workflow.yml")>>
          /\ \A i \in DOMAIN Candidates :
               IsFirstExisting(i)
                 => /\ response'.outcome.path = Candidates[i]
                    /\ response'.outcome = loadFromFile(files, Candidates[i])
          /\ \A i \in DOMAIN Candidates :
               ( /\ "path" \in DOMAIN response'.outcome
                 /\ response'.outcome.path = Candidates[i] )
                 => \A j \in 1..(i - 1) : ~ExistsSync(files, Candidates[j])]_vars

\* 'custom' was resolved to the graph of .vibe/state-machine.yml while
\* .vibe/workflow.yaml holds another valid graph and .vibe/state-machine.yaml
\* does not exist.
C12_Witness ==
  /\ response.kind = "resolve"
  /\ response.name = "custom"
  /\ response.outcome.ok
  /\ response.outcome.path = Candidates[2]
  /\ response.outcome.graph = CustomGraph
  /\ files[Candidates[1]] = Absent
  /\ files[Candidates[2]] = ValidFile(CustomGraph)
  /\ files[Candidates[3]] = ValidFile(CustomEdited)

\* C13: a resolution of 'custom' returns the graph of the first candidate
\* that parses: when an earlier candidate exists but is malformed and a
\* later one is valid, the later one's graph is returned, no error.
C13_FirstParsingCandidateLoaded ==
  [][ResolveWorkflow("custom")
       => \A i \in DOMAIN Candidates :
            ( /\ files[Candidates[i]].kind = "valid"
              /\ \A j \in 1..(i - 1) : files[Candidates[j]].kind # "valid" )
              => /\ response'.outcome.ok
                 /\ response'.outcome.graph =
                      Parse(files[Candidates[i]].text)]_vars

\* C14: when no candidate exists, a resolution of 'custom' fails with the
\* custom-workflow-missing error, which lists the four searched paths
\* relative to the project, and returns no graph.
C14_MissingCustomListsCandidates ==
  [][ResolveWorkflow("custom")
       => ( (\A i \in DOMAIN Candidates : ~ExistsSync(files, Candidates[i]))
              => /\ ~response'.outcome.ok
                 /\ response'.outcome.error = "CustomWorkflowMissing"
                 /\ response'.outcome.searched =
                      <<InProject(".vibe/state-machine.yaml"),
                        InProject(".vibe/state-machine.yml"),
                        InProject(".vibe/workflow.yaml"),
                        InProject(".vibe/workflow.yml")>>
                 /\ "graph" \notin DOMAIN response'.outcome )]_vars

\* 'custom' was refused for a project none of whose candidates exists.
C14_Witness ==
  /\ response.kind = "resolve"
  /\ response.name = "custom"
  /\ ~response.outcome.ok
  /\ response.outcome.error = "CustomWorkflowMissing"
  /\ Len(response.outcome.searched) = 4
  /\ files = NoCustomFiles

\* C16: custom graphs are not cached: each resolution of 'custom' gives what
\* the candidate files hold at that resolution, whatever an earlier
\* resolution gave, so a file changed, created or removed in between shows.
C16_CustomNeverCached ==
  [][ResolveWorkflow("custom")
       => /\ \A i \in DOMAIN Candidates :
               IsFirstExisting(i)
                 => IF files[Candidates[i]].kind = "valid"
                    THEN /\ response'.outcome.ok
                         /\ response'.outcome.graph =
                              Parse(files[Candidates[i]].text)
                    ELSE ~response'.outcome.ok
          /\ (\A i \in DOMAIN Candidates : ~ExistsSync(files, Candidates[i]))
               => /\ ~response'.outcome.ok
                  /\ response'.outcome.error = "CustomWorkflowMissing"]_vars

\* Two resolutions of 'custom' in a row gave different results: the second
\* gave the edited graph that .vibe/workflow.yaml holds now.
C16_Witness ==
  /\ response.kind = "resolve"
  /\ response.name = "custom"
  /\ response.changed
  /\ response.outcome.ok
  /\ response.outcome.graph = CustomEdited
  /\ response.outcome.path = Candidates[3]
  /\ files[Candidates[3]] = ValidFile(CustomEdited)

\* WorkflowManager.validateWorkflowName on the project's files fs
validateWorkflowName(manager, fs, projectPath, workflowName) ==
  IF isPredefinedWorkflow(manager, workflowName) THEN TRUE
  ELSE IF workflowName = "custom"
  THEN \E i \in DOMAIN customFilePaths(projectPath) :
         ExistsSync(fs, customFilePaths(projectPath)[i])
  ELSE FALSE

\* The files WorkflowResourceHandler tries for workflow://custom, in order
resourceFilePaths(projectPath) ==
  <<Join(projectPath, ".vibe/workflow.yaml"),
    Join(projectPath, ".vibe/workflow.yml")>>

\* WorkflowResourceHandler.handle for workflow://workflowName: the file it
\* reads and what the file holds, or the error
WorkflowResource(dir, fs, projectPath, workflowName) ==
  IF workflowName = "custom"
  THEN LET paths == resourceFilePaths(projectPath)
           first == FirstExisting(fs, paths)
       IN  IF first # 0
           THEN [ok |-> TRUE, path |-> paths[first],
                 content |-> fs[paths[first]]]
           ELSE [ok |-> FALSE, error |-> "CustomFileNotFound"]
  ELSE LET yaml == WorkflowFile(workflowName, ".yaml")
           yml == WorkflowFile(workflowName, ".yml")
       IN  IF ExistsSync(dir, yaml)
           THEN [ok |-> TRUE, path |-> yaml, content |-> dir[yaml]]
           ELSE IF ExistsSync(dir, yml)
           THEN [ok |-> TRUE, path |-> yml, content |-> dir[yml]]
           ELSE [ok |-> FALSE, error |-> "WorkflowFileNotFound"]

\* The workflow names a validation or a resource read is asked for
ResourceNames == NameInputs \ {""}

\* One validation of a name by the manager of the server context
ValidateWorkflow(workflowName) ==
  /\ response' =
       [kind |-> "validate", name |-> workflowName,
        valid |-> validateWorkflowName(workflowManager, files, ProjectPath,
                                       workflowName)]
  /\ UNCHANGED <<nodeEnv, head, clock, db, logs, planFiles, files,
                 workflowsDir, workflowManager, calls, result, keyCalls,
                 processEnv, server>>

\* One read of the resource workflow://workflowName
ReadWorkflowResource(workflowName) ==
  /\ response' =
       [kind |-> "resource", name |-> workflowName,
        outcome |-> WorkflowResource(workflowsDir, files, ProjectPath,
                                     workflowName)]
  /\ UNCHANGED <<nodeEnv, head, clock, db, logs, planFiles, files,
                 workflowsDir, workflowManager, calls, result, keyCalls,
                 processEnv, server>>

NextResource ==
  \/ \E path \in DOMAIN NoCustomFiles, content \in CustomContents :
       WriteCustom(path, content)
  \/ \E w \in ResourceNames : ValidateWorkflow(w)
  \/ \E w \in ResourceNames : ReadWorkflowResource(w)

SpecResource == InitCustom /\ [][NextResource]_vars

\* A resolution that did not fail with the unknown-workflow or the
\* custom-workflow-missing error
Resolves(outcome) ==
  IF outcome.ok THEN TRUE
  ELSE outcome.error \notin {"UnknownWorkflow", "CustomWorkflowMissing"}

\* C34: a name is valid for the project exactly when its resolution does
\* not fail with unknown-workflow or custom-workflow-missing, and whenever
\* 'custom' is valid for the project, for every placement of the four
\* candidate files, a read of workflow://custom succeeds with the content of
\* the file the resolution of 'custom' loads.
C34_ValidationAndResourceAgree ==
  [][/\ \A w \in ResourceNames :
          ValidateWorkflow(w)
            => (response'.valid
                  <=> Resolves(loadWorkflowForProject(workflowManager, files,
                                                      ProjectPath, w)))
     /\ ( /\ ReadWorkflowResource("custom")
          /\ validateWorkflowName(workflowManager, files, ProjectPath,
                                  "custom") )
          => /\ response'.outcome.ok
             /\ \A i \in DOMAIN Candidates :
                  IsFirstExisting(i)
                    => /\ response'.outcome.path = Candidates[i]
                       /\ response'.outcome.content = files[Candidates[i]]]_vars

----------------------------------------------------------------------------
(* The catalog of predefined workflows while the shipped files change *)

\* What a file of the workflows directory may hold
WorkflowContents(f) ==
  IF f.base = "waterfall"
  THEN {Absent, ValidFile(Waterfall), ValidFile(WaterfallEdited), Malformed}
  ELSE {Absent, ValidFile(CustomGraph), Malformed}

\* The workflows directories that can be met on disk
WorkflowDirs ==
  {dir \in [WorkflowFiles -> UNION {WorkflowContents(f) : f \in WorkflowFiles}] :
     \A f \in WorkflowFiles : dir[f] \in WorkflowContents(f)}

\* A file of the workflows directory is created, changed or removed
WriteWorkflowFile(f, content) ==
  /\ workflowsDir[f] # content
  /\ workflowsDir' = [workflowsDir EXCEPT ![f] = content]
  /\ UNCHANGED <<nodeEnv, head, clock, db, logs, planFiles, files,
                 workflowManager, calls, result, keyCalls, response, processEnv,
                 server>>

\* The process starts again: the server context gets a new WorkflowManager
Restart ==
  /\ workflowManager' = WorkflowManager(workflowsDir)
  /\ response' = NoResponse
  /\ UNCHANGED <<nodeEnv, head, clock, db, logs, planFiles, files,
                 workflowsDir, calls, result, keyCalls, processEnv, server>>

\* The names and infos the server context's manager offers
ListWorkflows ==
  /\ response' = [kind |-> "list",
                  names |-> getWorkflowNames(workflowManager),
                  infos |-> getAvailableWorkflows(workflowManager)]
  /\ UNCHANGED <<nodeEnv, head, clock, db, logs, planFiles, files,
                 workflowsDir, workflowManager, calls, result, keyCalls, processEnv,
                 server>>

InitCatalog ==
  /\ nodeEnv = "production"
  /\ head = OnBranch(Main)
  /\ clock = 0
  /\ db = EmptyMap
  /\ logs = {}
  /\ planFiles = {}
  /\ files = CustomFiles
  /\ workflowsDir \in WorkflowDirs
  /\ workflowManager = WorkflowManager(workflowsDir)
  /\ calls = EmptyMap
  /\ result = NoResult
  /\ keyCalls = << >>
  /\ response = NoResponse
  /\ processEnv = NoEnv
  /\ server = NoServer

NextCatalog ==
  \/ \E f \in WorkflowFiles :
       \E content \in WorkflowContents(f) : WriteWorkflowFile(f, content)
  \/ Restart
  \/ ListWorkflows
  \/ \E w \in NameInputs : ResolveWorkflow(w)
  \/ \E w \in NameInputs \ {""} : StartDevelopment(w)
  \/ ResetDevelopment

SpecCatalog == InitCatalog /\ [][NextCatalog]_vars

\* The name a requested name stands for
Requested(workflowName) ==
  IF workflowName = "" THEN "waterfall" ELSE workflowName

\* C15: a resolution of a built-in name returns the catalog's graph; a name
\* that is neither built-in nor 'custom' fails with the unknown-workflow
\* error listing every built-in name and 'custom'; a missing name is
\* resolved as 'waterfall'.
C15_BuiltinOrUnknown ==
  [][\A w \in NameInputs :
       ResolveWorkflow(w)
         => LET name == Requested(w)
                builtin == DOMAIN workflowManager.predefinedWorkflows
                outcome == response'.outcome
            IN  /\ name \in builtin \ {"custom"}
                     => /\ outcome.ok
                        /\ outcome.graph =
                             getWorkflow(workflowManager, name)
                /\ name \notin builtin \cup {"custom"}
                     => /\ ~outcome.ok
                        /\ outcome.error = "UnknownWorkflow"
                        /\ outcome.available = builtin \cup {"custom"}
                /\ w = "" => name = "waterfall"]_vars

\* 'agile' was refused by a catalog of two workflows, naming both and custom.
C15_Witness ==
  /\ response.kind = "resolve"
  /\ response.name = "agile"
  /\ ~response.outcome.ok
  /\ response.outcome.error = "UnknownWorkflow"
  /\ response.outcome.available = {"minimal", "waterfall", "custom"}
  /\ DOMAIN workflowManager.predefinedWorkflows = {"minimal", "waterfall"}

\* C17: the built-in set is loaded once at process start and does not change
\* afterwards: every later resolution of a built-in name, the one done when
\* a new session is created included, gives the graph loaded at start, even
\* when the definition files on disk have changed since.
C17_BuiltinsLoadedOnce ==
  [][ /\ workflowManager' # workflowManager => Restart
      /\ \A w \in NameInputs :
           ( /\ ResolveWorkflow(w)
             /\ Requested(w) \in DOMAIN workflowManager.predefinedWorkflows )
             => response'.outcome.graph =
                  getWorkflow(workflowManager, Requested(w))
      /\ \A w \in DOMAIN workflowManager.predefinedWorkflows :
           ( /\ EngineId \notin DOMAIN db
             /\ StartDevelopment(w) )
             => /\ response'.ok
                /\ db'[EngineId].currentPhase =
                     getWorkflow(workflowManager, w).initial_state
    ]_vars

\* The files a manager was built from that did not load, and those that did
FailedFiles(dir) == {f \in WorkflowFiles : dir[f].kind = "malformed"}
LoadableFiles(dir) == {f \in WorkflowFiles : dir[f].kind = "valid"}

\* C18: a built-in definition file that fails to load is registered under
\* neither getWorkflowNames nor getAvailableWorkflows, every valid definition
\* of the same directory is registered under both, and the construction of
\* the catalog completes.
C18_FailedFileNotRegistered ==
  [][Restart
       => LET names == getWorkflowNames(workflowManager')
              infos == getAvailableWorkflows(workflowManager')
          IN  /\ workflowManager'.ok
              /\ \A f \in FailedFiles(workflowsDir) :
                   /\ f.base \notin names
                   /\ \A info \in infos : info.name # f.base
              /\ \A f \in LoadableFiles(workflowsDir) :
                   /\ f.base \in names
                   /\ getWorkflow(workflowManager', f.base) =
                        Parse(workflowsDir[f].text)
                   /\ \E info \in infos : info.name = f.base]_vars

\* A manager built while minimal.yml was malformed lists waterfall only.
C18_Witness ==
  /\ response.kind = "list"
  /\ response.names = {"waterfall"}
  /\ \A info \in response.infos : info.name = "waterfall"
  /\ response.infos # {}
  /\ workflowManager = WorkflowManager(workflowsDir)
  /\ workflowsDir[WorkflowFile("minimal", ".yml")] = Malformed
  /\ workflowsDir[WorkflowFile("waterfall", ".yaml")] = ValidFile(Waterfall)

\* An edge in the one shape both shapes are read as
NormalizedEdge(e) ==
  [trigger |-> e.trigger, target |-> EdgeTarget(e),
   instructions |-> EdgeInstructions(e), reason |-> EdgeReason(e)]

\* All edges of a graph, normalized
NormalizedEdges(graph) ==
  UNION {{NormalizedEdge(graph.states[phase].transitions[i]) :
            i \in 1..Len(graph.states[phase].transitions)} :
         phase \in DOMAIN graph.states}

\* C19: in the built-in waterfall graph, both edge shapes read as one, the
\* initial phase is a declared phase and every edge of every phase has a
\* declared phase as its target and a non-empty guidance text.
C19_WaterfallWellFormed ==
  \A name \in DOMAIN workflowManager.predefinedWorkflows :
    LET graph == getWorkflow(workflowManager, name)
    IN  graph = Waterfall
          => /\ graph.initial_state \in DOMAIN graph.states
             /\ \A e \in NormalizedEdges(graph) :
                  /\ e.target \in DOMAIN graph.states
                  /\ e.instructions # ""

\* The catalog serves the shipped waterfall graph, which has edges of both
\* shapes, and a resolution of 'waterfall' returned it.
C19_Witness ==
  /\ "waterfall" \in DOMAIN workflowManager.predefinedWorkflows
  /\ getWorkflow(workflowManager, "waterfall") = Waterfall
  /\ response.kind = "resolve"
  /\ response.outcome.ok
  /\ response.outcome.graph = Waterfall
  /\ \E phase \in DOMAIN Waterfall.states :
       \E i \in 1..Len(Waterfall.states[phase].transitions) :
         "to" \in DOMAIN Waterfall.states[phase].transitions[i]
  /\ \E phase \in DOMAIN Waterfall.states :
       \E i \in 1..Len(Waterfall.states[phase].transitions) :
         "target" \in DOMAIN Waterfall.states[phase].transitions[i]

\* The edges of every phase of a graph in the opposite order
ReverseEdges(edges) == [i \in 1..Len(edges) |-> edges[Len(edges) + 1 - i]]

EdgesReversed(graph) ==
  [graph EXCEPT !.states =
     [phase \in DOMAIN graph.states |->
        [graph.states[phase] EXCEPT !.transitions = ReverseEdges(@)]]]

\* C35: in the built-in waterfall graph no two edges of one phase share a
\* trigger name, so the edge chosen for a phase and a trigger is unique: at
\* most one edge matches, and the transition the engine answers is the same
\* when the edges of every phase are listed in the opposite order.
C35_WaterfallTriggersUnique ==
  \A name \in DOMAIN workflowManager.predefinedWorkflows :
    LET graph == getWorkflow(workflowManager, name)
    IN  graph = Waterfall =>
          \A phase \in DOMAIN graph.states :
            LET edges == graph.states[phase].transitions
            IN  /\ \A i, j \in DOMAIN edges :
                     i # j => edges[i].trigger # edges[j].trigger
                /\ \A trigger \in TriggersOf(graph) :
                     /\ Cardinality({i \in DOMAIN edges :
                                       edges[i].trigger = trigger}) <= 1
                     /\ TriggerTransition(EdgesReversed(graph), phase, trigger)
                          = TriggerTransition(graph, phase, trigger)

\* The catalog serves the waterfall graph to a session that started with it,
\* a graph with phases of several edges and a trigger name that recurs in
\* different phases
C35_Witness ==
  /\ "waterfall" \in DOMAIN workflowManager.predefinedWorkflows
  /\ getWorkflow(workflowManager, "waterfall") = Waterfall
  /\ response.kind = "start"
  /\ response.ok
  /\ EngineId \in DOMAIN db
  /\ db[EngineId].workflowName = "waterfall"
  /\ \E phase \in DOMAIN Waterfall.states :
       Len(Waterfall.states[phase].transitions) >= 4
  /\ \E p1, p2 \in DOMAIN Waterfall.states :
       /\ p1 # p2
       /\ TriggerTransition(Waterfall, p1, "abandon_feature").ok
       /\ TriggerTransition(Waterfall, p2, "abandon_feature").ok

\* The phases one edge away from a set of phases, and every phase that can
\* be reached from the set by following edges
Successors(graph, phases) ==
  UNION { {EdgeTarget(graph.states[phase].transitions[i]) :
             i \in DOMAIN graph.states[phase].transitions} :
          phase \in phases \cap DOMAIN graph.states }

RECURSIVE Reach(_, _)
Reach(graph, phases) ==
  LET next == phases \cup Successors(graph, phases)
  IN  IF next = phases THEN phases ELSE Reach(graph, next)

\* C36: in the built-in waterfall graph, following the edges of the phases
\* only, every declared phase is reachable from the initial phase, the
\* initial phase is reachable from every phase, and every edge triggered by
\* abandon_feature targets the initial phase.
C36_WaterfallConnected ==
  \A name \in DOMAIN workflowManager.predefinedWorkflows :
    LET graph == getWorkflow(workflowManager, name)
    IN  graph = Waterfall =>
          /\ graph.initial_state = "idle"
          /\ DOMAIN graph.states \subseteq Reach(graph, {graph.initial_state})
          /\ \A phase \in DOMAIN graph.states :
               /\ graph.initial_state \in Reach(graph, {phase})
               /\ graph.states[phase].transitions # << >>
               /\ \A i \in DOMAIN graph.states[phase].transitions :
                    graph.states[phase].transitions[i].trigger
                        = "abandon_feature"
                      => EdgeTarget(graph.states[phase].transitions[i])
                           = graph.initial_state

\* The catalog lists the waterfall graph, whose last phase is several edges
\* away from the initial phase and whose phases have abandon edges
C36_Witness ==
  /\ response.kind = "list"
  /\ "waterfall" \in response.names
  /\ getWorkflow(workflowManager, "waterfall") = Waterfall
  /\ "complete" \notin Successors(Waterfall, {"idle"})
  /\ "complete" \in Reach(Waterfall, {"idle"})
  /\ \E phase \in DOMAIN Waterfall.states :
       TriggerTransition(Waterfall, phase, "abandon_feature").ok

-----------------------------------------------------------------------------
(* The project path of the server and of its sessions *)

\* process.cwd(): the directory the server runs in
Cwd == ProjectPath

\* A directory that exists, a path that names nothing on disk (the
\* '/custom/project/path' of the unit tests), a path relative to the
\* working directory that names a directory, and the path of a regular file
CustomProjectPath == <<"/", "B">>
MissingProjectPath == <<"/", "x">>
RelativeProjectPath == <<"d">>
RegularFilePath == <<"/", "f">>

\* The values of an optional path: undefined, empty, or one of the paths
PathInputs ==
  {<< >>, CustomProjectPath, MissingProjectPath, RelativeProjectPath}

OptionalPaths == {Undefined} \cup {Given(p) : p \in PathInputs}

\* The paths a manager is constructed with or set to: one of the above, or
\* the path of the regular file
ManagerPaths == OptionalPaths \cup {Given(RegularFilePath)}

SetPathInputs == {CustomProjectPath, MissingProjectPath, RegularFilePath}

\* The truthiness of an optional string: defined and not empty
Truthy(v) == v.set /\ v.value # << >>

\* a || b on optional strings
Or(a, b) == IF Truthy(a) THEN a ELSE b

\* path.resolve(path): an absolute path as it is, a relative one below the
\* working directory
resolve(path) ==
  IF path = << >> THEN Cwd
  ELSE IF path[1] = "/" THEN path
  ELSE Cwd \o <<"/">> \o path

\* The directories and the regular files on disk
Directories == {Cwd, CustomProjectPath, resolve(RelativeProjectPath)}
RegularFiles == {RegularFilePath}

\* fs.existsSync(path): the path names an entry of the disk, a directory or
\* a file
existsSync(path) == resolve(path) \in Directories \cup RegularFiles

\* A determineProjectPath that keeps the chosen path whether it exists or not
determineProjectPath_Unchecked(e, providedPath) ==
  resolve(IF Truthy(providedPath) THEN providedPath.value
          ELSE IF Truthy(e.VIBE_PROJECT_PATH) THEN e.VIBE_PROJECT_PATH.value
          ELSE Cwd)

\* ConversationManager.determineProjectPath under the environment e
determineProjectPath(e, providedPath) ==
  LET chosen == IF Truthy(providedPath) THEN providedPath.value
                ELSE IF Truthy(e.VIBE_PROJECT_PATH)
                THEN e.VIBE_PROJECT_PATH.value
                ELSE Cwd
      projectPath == IF ~existsSync(chosen) THEN Cwd ELSE chosen
  IN  resolve(projectPath)

\* normalizeProjectPath of server-helpers: the path given, or the working
\* directory when none is
normalizeProjectPath(path) == IF Truthy(path) THEN path.value ELSE Cwd

\* The test harness or the shell sets or deletes an environment variable
SetEnv(name, value) ==
  /\ processEnv[name] # value
  /\ processEnv' = [processEnv EXCEPT ![name] = value]
  /\ UNCHANGED <<nodeEnv, head, clock, db, logs, planFiles, files,
                 workflowsDir, workflowManager, calls, result, keyCalls,
                 response, server>>

\* new ConversationManager(database, providedPath), on its own
NewConversationManager(providedPath) ==
  /\ server' = [server EXCEPT !.conversationManager =
                               determineProjectPath(processEnv, providedPath)]
  /\ UNCHANGED <<nodeEnv, head, clock, db, logs, planFiles, files,
                 workflowsDir, workflowManager, calls, result, keyCalls,
                 response, processEnv>>

\* manager.setProjectPath(projectPath) on a constructed manager: raises for
\* a path that does not exist, else holds the resolved path
setProjectPath(projectPath) ==
  /\ server.conversationManager # << >>
  /\ LET resolvedPath == resolve(projectPath)
     IN  IF ~existsSync(resolvedPath)
         THEN /\ response' = [kind |-> "setProjectPath", ok |-> FALSE,
                              request |-> projectPath,
                              error |-> "Project path does not exist"]
              /\ UNCHANGED server
         ELSE /\ server' = [server EXCEPT
                              !.conversationManager = resolvedPath]
              /\ response' = [kind |-> "setProjectPath", ok |-> TRUE,
                              request |-> projectPath]
  /\ UNCHANGED <<nodeEnv, head, clock, db, logs, planFiles, files,
                 workflowsDir, workflowManager, calls, result, keyCalls,
                 processEnv>>

\* initializeServerComponents(config): the context's projectPath, and the
\* ConversationManager constructed with it
initializeServerComponents(config) ==
  /\ LET projectPath ==
           normalizeProjectPath(Or(config, processEnv.PROJECT_PATH))
     IN  server' = [initialized |-> TRUE,
                    projectPath |-> projectPath,
                    conversationManager |->
                      determineProjectPath(processEnv, Given(projectPath))]
  /\ UNCHANGED <<nodeEnv, head, clock, db, logs, planFiles, files,
                 workflowsDir, workflowManager, calls, result, keyCalls,
                 response, processEnv>>

\* parseArguments in server mode: the configuration main starts the server
\* with
parseArguments == [mode |-> "server",
                   projectPath |-> processEnv.VIBE_PROJECT_PATH]

\* main: the server started from the command line
main == initializeServerComponents(parseArguments.projectPath)

\* The projectPath arguments start_development is called with
StartPaths == {Undefined, Given(CustomProjectPath)}

\* start_development(workflow, projectPath): the handler hands both to
\* createConversationContext, which takes the workflow name alone and works
\* on the project path of the manager
start_development(workflowName, projectPath) ==
  /\ server.initialized
  /\ LET managerPath == server.conversationManager
         gitBranch == getGitBranch(head, FALSE)
         conversationId ==
           generateConversationId(managerPath, gitBranch, nodeEnv)
         loaded == loadWorkflowForProject(WorkflowManager(workflowsDir),
                                          files, managerPath, workflowName)
         answer(state) ==
           [kind |-> "start_development", ok |-> TRUE,
            request |-> projectPath, configured |-> managerPath,
            phase |-> state.currentPhase,
            projectPath |-> state.projectPath,
            conversation_id |-> state.conversationId]
     IN  IF conversationId \in DOMAIN db
         THEN /\ response' = answer(db[conversationId])
              /\ UNCHANGED db
         ELSE IF ~loaded.ok
         THEN /\ response' = [kind |-> "start_development", ok |-> FALSE,
                              request |-> projectPath,
                              error |-> loaded.error]
              /\ UNCHANGED db
         ELSE LET state == NewState(conversationId, managerPath, gitBranch,
                                    workflowName, loaded.graph, clock)
              IN  /\ db' = saveConversationState(db, state)
                  /\ response' = answer(state)
  /\ UNCHANGED <<nodeEnv, head, clock, logs, planFiles, files, workflowsDir,
                 workflowManager, calls, result, keyCalls, processEnv,
                 server>>

InitPath ==
  /\ nodeEnv = "production"
  /\ head = OnBranch(Main)
  /\ clock = 0
  /\ db = EmptyMap
  /\ logs = {}
  /\ planFiles = {}
  /\ files = NoCustomFiles
  /\ workflowsDir = Shipped
  /\ workflowManager = WorkflowManager(Shipped)
  /\ calls = EmptyMap
  /\ result = NoResult
  /\ keyCalls = << >>
  /\ response = NoResponse
  /\ processEnv = NoEnv
  /\ server = NoServer

NextPath ==
  \/ \E value \in OptionalPaths : SetEnv("VIBE_PROJECT_PATH", value)
  \/ \E value \in {Undefined, Given(CustomProjectPath)} :
       SetEnv("PROJECT_PATH", value)
  \/ \E providedPath \in ManagerPaths : NewConversationManager(providedPath)
  \/ \E projectPath \in SetPathInputs : setProjectPath(projectPath)
  \/ main
  \/ \E config \in OptionalPaths : initializeServerComponents(config)
  \/ \E w \in {"waterfall", "agile"}, projectPath \in StartPaths :
       start_development(w, projectPath)

SpecPath == InitPath /\ [][NextPath]_vars

\* The path the priority order names: the explicit one, else the one of
\* VIBE_PROJECT_PATH, else the working directory
ByPriority(explicit, e) ==
  IF Truthy(explicit) THEN explicit.value
  ELSE IF Truthy(e.VIBE_PROJECT_PATH) THEN e.VIBE_PROJECT_PATH.value
  ELSE Cwd

\* C23: the project path of a ConversationManager is the explicit
\* constructor parameter if given, else the value of VIBE_PROJECT_PATH if
\* set and not empty, else process.cwd(), and the chosen value is used as
\* given.
C23_ManagerPathByPriority ==
  [][\A providedPath \in OptionalPaths :
       NewConversationManager(providedPath)
         => server'.conversationManager =
              ByPriority(providedPath, processEnv)]_vars

\* C24: after initialization the projectPath of the server context is
\* config.projectPath when given, else the value of VIBE_PROJECT_PATH when
\* set, else process.cwd().
C24_ContextPathByPriority ==
  [][\A config \in OptionalPaths :
       initializeServerComponents(config)
         => server'.projectPath = ByPriority(config, processEnv)]_vars

\* C25: a start_development that succeeded with a projectPath argument
\* answers with the session of that project path, and one without the
\* argument with the session of the project path the server's manager is
\* configured with.
C25_StartUsesExplicitPath ==
  (response.kind = "start_development" /\ response.ok)
    => /\ response.conversation_id \in DOMAIN db
       /\ response.projectPath =
            IF Truthy(response.request) THEN response.request.value
            ELSE response.configured

\* A path that names a directory of the disk
IsDirectory(path) == resolve(path) \in Directories

====
